---- MODULE Spec2Model ----
(***************************************************************************)
(* Size matching of the nail_fit application (component NailFitting).      *)
(*                                                                         *)
(* The repository holds three revisions of NailFitting:                    *)
(*   src/src/components/NailFitting.tsx  score-based matcher               *)
(*   src/unnamed/part_012                findComfortFit / findTightFit /   *)
(*                                       findPerfectFit helpers            *)
(*   src/unnamed/part_011                width <= target / curve >= target *)
(* Each revision's findMatchingSizes handler is an action of its own and   *)
(* writes its own matchedSizes variable.                                   *)
(*                                                                         *)
(* Numbers.  Widths and curves are JavaScript doubles in millimetres.  The *)
(* model holds them as integers counting sixteenths of a millimetre: every *)
(* value, sum and difference the code forms is then a dyadic rational that *)
(* a double represents exactly, so integer arithmetic here is the code's   *)
(* floating-point arithmetic (0.5 mm is 8 units, and x < 0.1 mm is         *)
(* 10 * x < 16 units).                                                     *)
(*                                                                         *)
(* Optional numbers.  nail_bed_curve and inner_curve are optional; every   *)
(* place the modelled code reads them tests truthiness, which treats       *)
(* undefined and 0 alike, so both are held as NoCurve = 0.                 *)
(***************************************************************************)
EXTENDS Integers, Sequences, FiniteSets, TLC

\* JavaScript's undefined, null and NaN; records, so that they compare with
\* the records that model objects and parsed numbers.
Undefined == [undefined |-> TRUE]
Null == [null |-> TRUE]
NaN == [num |-> 0, den |-> 0]
NoCurve == 0

Mm(n) == 16 * n

Abs(x) == IF x < 0 THEN -x ELSE x

(***************************************************************************)
(* Strings are sequences of one-character strings.                         *)
(***************************************************************************)
UpperChars == <<"A","B","C","D","E","F","G","H","I","J","K","L","M",
                "N","O","P","Q","R","S","T","U","V","W","X","Y","Z">>
LowerChars == <<"a","b","c","d","e","f","g","h","i","j","k","l","m",
                "n","o","p","q","r","s","t","u","v","w","x","y","z">>
DigitChars == <<"0","1","2","3","4","5","6","7","8","9">>

IndexOf(seq, c) ==
    IF \E i \in 1..Len(seq) : seq[i] = c
    THEN CHOOSE i \in 1..Len(seq) : seq[i] = c
    ELSE 0

\* String.prototype.toLowerCase
toLowerCase(s) ==
    [i \in 1..Len(s) |->
        IF IndexOf(UpperChars, s[i]) > 0
        THEN LowerChars[IndexOf(UpperChars, s[i])]
        ELSE s[i]]

\* String.prototype.includes
includes(s, sub) ==
    \E i \in 0..(Len(s) - Len(sub)) : SubSeq(s, i + 1, i + Len(sub)) = sub

IsDigit(c) == IndexOf(DigitChars, c) > 0
DigitValue(c) == IndexOf(DigitChars, c) - 1

(***************************************************************************)
(* parseFloat: optional sign, decimal digits, optional fraction; NaN when  *)
(* no digit starts the number.  The value is the rational num / den.       *)
(***************************************************************************)
RECURSIVE DigitRun(_, _)
DigitRun(s, i) ==
    IF i <= Len(s) /\ IsDigit(s[i]) THEN 1 + DigitRun(s, i + 1) ELSE 0

RECURSIVE DigitsValue(_, _, _)
DigitsValue(s, i, n) ==
    IF n = 0 THEN 0
    ELSE 10 * DigitsValue(s, i, n - 1) + DigitValue(s[i + n - 1])

RECURSIVE Pow10(_)
Pow10(n) == IF n = 0 THEN 1 ELSE 10 * Pow10(n - 1)

parseFloat(s) ==
    LET signed == Len(s) > 0 /\ s[1] \in {"-", "+"}
        start == IF signed THEN 2 ELSE 1
        sign == IF signed /\ s[1] = "-" THEN -1 ELSE 1
        intLen == DigitRun(s, start)
        dot == start + intLen
        hasDot == dot <= Len(s) /\ s[dot] = "."
        fracLen == IF hasDot THEN DigitRun(s, dot + 1) ELSE 0
    IN  IF intLen = 0 /\ fracLen = 0 THEN NaN
        ELSE [num |-> sign * (DigitsValue(s, start, intLen) * Pow10(fracLen)
                              + DigitsValue(s, dot + 1, fracLen)),
              den |-> Pow10(fracLen)]

\* JavaScript comparisons of two numbers, either of which may be NaN
NumEq(a, b) == a /= NaN /\ b /= NaN /\ a.num * b.den = b.num * a.den
NumLt(a, b) == a /= NaN /\ b /= NaN /\ a.num * b.den < b.num * a.den
MathMin(a, b) == IF a = NaN \/ b = NaN THEN NaN ELSE IF NumLt(b, a) THEN b ELSE a
MathMax(a, b) == IF a = NaN \/ b = NaN THEN NaN ELSE IF NumLt(a, b) THEN b ELSE a

\* Array.prototype.filter and Array.prototype.some
RECURSIVE filter(_, _)
filter(arr, keep) ==
    IF Len(arr) = 0 THEN <<>>
    ELSE (IF arr[1] \in keep THEN <<arr[1]>> ELSE <<>>) \o filter(Tail(arr), keep)

Elements(arr) == {arr[i] : i \in 1..Len(arr)}

(***************************************************************************)
(* Array.prototype.sort as V8 runs it on an array shorter than 64: find    *)
(* the initial run (reversing a strictly descending one), then binary      *)
(* insertion of the remaining elements.  With a consistent comparator this *)
(* is the stable sort ECMAScript requires.  The comparator is held as the    *)
(* function from a pair of elements to its number (a NaN result is held as *)
(* 0, as the engine treats it).                                            *)
(***************************************************************************)
Reverse(s) == [i \in 1..Len(s) |-> s[Len(s) + 1 - i]]

ArraySort(arr, comparator) ==
    LET n == Len(arr)
        descending == comparator[arr[2], arr[1]] < 0
        \* runEnd[i]: last index of the initial run, scanning from index i
        runEnd[i \in 3..(n + 1)] ==
            IF i > n THEN n
            ELSE LET order == comparator[arr[i], arr[i - 1]]
                 IN  IF (descending /\ order >= 0) \/ (~descending /\ order < 0)
                     THEN i - 1
                     ELSE runEnd[i + 1]
        runLength == runEnd[3]
        withRun == IF descending
                   THEN Reverse(SubSeq(arr, 1, runLength)) \o SubSeq(arr, runLength + 1, n)
                   ELSE arr
        \* binary search of the slot (0-based) for pivot in a[0 .. right)
        Slot(a, pivot, right) ==
            LET search[lr \in (0..n) \X (0..n)] ==
                    LET left == lr[1]
                        rgt == lr[2]
                        mid == left + ((rgt - left) \div 2)
                    IN  IF left >= rgt THEN left
                        ELSE IF comparator[pivot, a[mid + 1]] < 0
                             THEN search[<<left, mid>>]
                             ELSE search[<<mid + 1, rgt>>]
            IN  search[<<0, right>>]
        InsertAt(a, start) ==
            LET left == Slot(a, a[start], start - 1)
            IN  SubSeq(a, 1, left) \o <<a[start]>> \o SubSeq(a, left + 1, start - 1)
                    \o SubSeq(a, start + 1, n)
        inserted[k \in 1..n] ==
            IF k <= runLength THEN withRun ELSE InsertAt(inserted[k - 1], k)
    IN  IF n < 2 THEN arr ELSE inserted[n]

(***************************************************************************)
(* Data.  A size is a row of "Nail Tip Sizes" (types/database.ts); the     *)
(* fields no modelled code reads (tip_set_id, length, created_at) are left *)
(* out.                                                                    *)
(***************************************************************************)
MaxSizes == 3
NumFingers == 1

NailTipSize(id, label, width, curve) ==
    [id |-> id, size_label |-> label, width |-> width, inner_curve |-> curve]

\* The rows the catalogue may hold: the S/M/L set without curvature data, and
\* sizes with inner-curve values, numeric and non-numeric labels, one of them
\* 1/16 mm narrower than M and two of them sharing a label (labels are not
\* enforced to be unique).
SizePool ==
    { NailTipSize(1, <<"S">>, Mm(10), NoCurve),
      NailTipSize(2, <<"M">>, Mm(12), NoCurve),
      NailTipSize(3, <<"L">>, Mm(14), NoCurve),
      NailTipSize(4, <<"3">>, Mm(12) - 1, Mm(5)),
      NailTipSize(5, <<"M", "3">>, Mm(11), Mm(6)),
      NailTipSize(6, <<"3">>, Mm(13), Mm(11)) }

RECURSIVE SizeLists(_)
SizeLists(n) ==
    IF n = 0 THEN {<<>>}
    ELSE LET shorter == SizeLists(n - 1)
         IN  shorter \cup
             { Append(l, s) : l \in {x \in shorter : Len(x) = n - 1},
                              s \in SizePool }

\* Rows with numeric size labels, as most catalogues number their sizes, one
\* with a decimal label and one with a label that is no number.
MaxLabelled == 4

LabelPool ==
    { NailTipSize(11, <<"1">>, Mm(16), Mm(9)),
      NailTipSize(12, <<"2">>, Mm(15), Mm(8)),
      NailTipSize(13, <<"3">>, Mm(14), Mm(7)),
      NailTipSize(14, <<"4">>, Mm(13), Mm(6)),
      NailTipSize(15, <<"2", ".", "5">>, Mm(12), Mm(5)),
      NailTipSize(16, <<"M", "3">>, Mm(11), Mm(5)) }

RECURSIVE LabelLists(_)
LabelLists(n) ==
    IF n = 0 THEN {<<>>}
    ELSE LET shorter == LabelLists(n - 1)
         IN  shorter \cup
             UNION { { Append(l, s) : s \in {r \in LabelPool :
                                                \A i \in 1..Len(l) : l[i].id /= r.id} } :
                     l \in {x \in shorter : Len(x) = n - 1} }

DistinctRows(l) == \A i, j \in 1..Len(l) : l[i].id = l[j].id => i = j

FingerNames ==
    << "Left Thumb", "Left Index", "Left Middle", "Left Ring", "Left Pinky",
       "Right Thumb", "Right Index", "Right Middle", "Right Ring", "Right Pinky" >>

FingerMeasurement(position, width, curve) ==
    [finger_position |-> position, nail_bed_width |-> width, nail_bed_curve |-> curve]

\* Values a width or curve input may hold after handleMeasurementChange
DEFAULT_MEASUREMENTS ==
    [i \in 1..NumFingers |-> FingerMeasurement(FingerNames[i], 0, NoCurve)]

WidthValues == {0 - Mm(1), 0, Mm(11), Mm(12)}
\* Widths of the fingers past those that take every value
FurtherWidthValues == {0, Mm(12)}
CurveValues == {NoCurve, Mm(5)}

NailTipSet(id, shape) == [id |-> id, shape |-> shape]

NailSets ==
    { NailTipSet(1, <<"A","l","m","o","n","d">>),
      NailTipSet(2, <<"S","q","u","a","r","e">>) }

VARIABLES
    sizesTable,              \* rows fetchData returns for the selected set, in order
    selectedSet,             \* the selected nail tip set, or Null
    measurements,            \* the ten FingerMeasurement inputs
    useTaperedCompensation,  \* the taper compensation toggle
    matchedSizes,            \* matches of NailFitting.tsx
    matchedSizes_012,        \* matches of part_012
    matchedSizes_011,        \* matches of part_011
    completed,               \* revisions whose findMatchingSizes reached setMatchedSizes
    tightFallback,           \* last direct call of findTightFit without a curve
    perfectCall,             \* last direct call of findPerfectFit
    recording,               \* whether the outputs of completed calls are kept
    outputs,                 \* per revision, the matches of its completed calls, in order
    sizesArg,                \* per revision, the fetched sizes array as its last call left it
    loading,                 \* the loading flag
    pending,                 \* findMatchingSizes invocations awaiting fetchData
    started,                 \* number of findMatchingSizes invocations started
    shown,                   \* the invocation whose matches matchedSizes holds, and
                             \* the latest started one that stored matches
    clientLoads,             \* handleClientSelect invocations awaiting fetchData
    Clients,                 \* ids of the rows of the Clients table
    Measurements,            \* rows of the Measurements table
    UserCredits,             \* the user's row of User Credits, or Null
    identity,                \* last generated id of each table
    clock,                   \* the time new Date() returns
    session,                 \* per browser session, the component's state and the
                             \* handler in flight with its local variables
    cleanup,                 \* cleanupOrphanedMeasurements in flight
    migration,               \* the duplicate-cleanup migration: whether it has run and
                             \* the table it ran on
    history,                 \* what the handlers have done so far
    measuring                \* the state of the RelativeMeasuring component

helperVars == <<tightFallback, perfectCall>>
logVars == <<recording, outputs, sizesArg>>
uiVars == <<loading, pending, started, shown, clientLoads>>
storeVars == <<Clients, Measurements, UserCredits, identity, clock, session,
               cleanup, migration, history, measuring>>

vars == <<sizesTable, selectedSet, measurements, useTaperedCompensation,
          matchedSizes, matchedSizes_012, matchedSizes_011, completed,
          helperVars, logVars, uiVars, storeVars>>

NoMatches == [f \in {} |-> Undefined]

Revisions == {"NailFitting.tsx", "part_012", "part_011"}

\* An absent (undefined) array field of a match is held as the empty
\* sequence: no revision stores an empty array in these fields.
OptionalArray(x) == IF x = Undefined \/ x = Null THEN <<>> ELSE <<x>>

isTaperedShape(set) ==
    \/ includes(toLowerCase(set.shape), <<"a","l","m","o","n","d">>)
    \/ includes(toLowerCase(set.shape), <<"s","t","i","l","l","e","t","o">>)

TaperCompensation == 8

\* the target width with the compensation toggle ignored, as part_011 computes it
TargetWidth_ignoresToggle(measurement, tapered, compensate) ==
    IF tapered
    THEN measurement.nail_bed_width + TaperCompensation
    ELSE measurement.nail_bed_width

TargetWidth(measurement, tapered, compensate) ==
    IF tapered /\ compensate
    THEN measurement.nail_bed_width + TaperCompensation
    ELSE measurement.nail_bed_width

First(arr) == IF Len(arr) = 0 THEN Undefined ELSE arr[1]

(***************************************************************************)
(* part_012: the helper functions.                                         *)
(***************************************************************************)
ComfortCompare(a, b, targetWidth) ==
    LET aDiff == Abs(a.width - targetWidth)
        bDiff == Abs(b.width - targetWidth)
    IN  IF 10 * Abs(aDiff - bDiff) < Mm(1)
        THEN a.width - b.width
        ELSE aDiff - bDiff

findComfortFit(sizes, targetWidth) ==
    First(ArraySort(sizes, [a \in Elements(sizes), b \in Elements(sizes) |->
                               ComfortCompare(a, b, targetWidth)]))

\* aDiff - bDiff where a diff is Infinity for a size without inner_curve;
\* Infinity - Infinity is NaN, which the sort takes as 0.
TightCurveCompare(a, b, targetCurve) ==
    IF a.inner_curve = NoCurve /\ b.inner_curve = NoCurve THEN 0
    ELSE IF a.inner_curve = NoCurve THEN 1
    ELSE IF b.inner_curve = NoCurve THEN -1
    ELSE Abs(a.inner_curve - targetCurve) - Abs(b.inner_curve - targetCurve)

\* findTightFit ranking by width where it should rank by curve
findTightFit_byWidth(sizes, targetWidth, targetCurve) ==
    First(ArraySort(sizes, [a \in Elements(sizes), b \in Elements(sizes) |->
                               Abs(a.width - targetWidth) - Abs(b.width - targetWidth)]))

findTightFit(sizes, targetWidth, targetCurve) ==
    IF targetCurve /= NoCurve
    THEN First(ArraySort(sizes, [a \in Elements(sizes), b \in Elements(sizes) |->
                                    TightCurveCompare(a, b, targetCurve)]))
    ELSE LET sortedSizes == ArraySort(sizes, [a \in Elements(sizes), b \in Elements(sizes) |->
                                              b.width - a.width])
             found == First(filter(sortedSizes,
                                   {s \in Elements(sortedSizes) : s.width <= targetWidth}))
         IN  IF found /= Undefined THEN found ELSE First(sortedSizes)

\* findPerfectFit with the between test written as !(size <= min) && !(size >= max),
\* which lets every size through when a label is not numeric
findPerfectFit_negatedBounds(sizes, comfortFit, tightFit) ==
    LET comfortSize == parseFloat(comfortFit.size_label)
        tightSize == parseFloat(tightFit.size_label)
        min == MathMin(comfortSize, tightSize)
        max == MathMax(comfortSize, tightSize)
        NumLe(a, b) == NumLt(a, b) \/ NumEq(a, b)
        inBetweenSizes ==
            filter(sizes, {s \in Elements(sizes) :
                              /\ ~NumLe(parseFloat(s.size_label), min)
                              /\ ~NumLe(max, parseFloat(s.size_label))})
    IN  IF NumEq(comfortSize, tightSize) THEN comfortFit
        ELSE IF Len(inBetweenSizes) > 0
             THEN inBetweenSizes[(Len(inBetweenSizes) \div 2) + 1]
             ELSE IF NumLt(comfortSize, tightSize) THEN comfortFit ELSE tightFit

\* findPerfectFit taking the first of the in-between sizes
findPerfectFit_firstBetween(sizes, comfortFit, tightFit) ==
    LET comfortSize == parseFloat(comfortFit.size_label)
        tightSize == parseFloat(tightFit.size_label)
        min == MathMin(comfortSize, tightSize)
        max == MathMax(comfortSize, tightSize)
        inBetweenSizes ==
            filter(sizes, {s \in Elements(sizes) :
                              /\ NumLt(min, parseFloat(s.size_label))
                              /\ NumLt(parseFloat(s.size_label), max)})
    IN  IF NumEq(comfortSize, tightSize) THEN comfortFit
        ELSE IF Len(inBetweenSizes) > 0
             THEN inBetweenSizes[1]
             ELSE IF NumLt(comfortSize, tightSize) THEN comfortFit ELSE tightFit

findPerfectFit(sizes, comfortFit, tightFit) ==
    LET comfortSize == parseFloat(comfortFit.size_label)
        tightSize == parseFloat(tightFit.size_label)
        min == MathMin(comfortSize, tightSize)
        max == MathMax(comfortSize, tightSize)
        inBetweenSizes ==
            filter(sizes, {s \in Elements(sizes) :
                              /\ NumLt(min, parseFloat(s.size_label))
                              /\ NumLt(parseFloat(s.size_label), max)})
    IN  IF NumEq(comfortSize, tightSize) THEN comfortFit
        ELSE IF Len(inBetweenSizes) > 0
             THEN inBetweenSizes[(Len(inBetweenSizes) \div 2) + 1]
             ELSE IF NumLt(comfortSize, tightSize) THEN comfortFit ELSE tightFit

some_inner_curve(sizes) == \E s \in Elements(sizes) : s.inner_curve /= NoCurve

\* part_012: the body of measurements.forEach for one measurement with width > 0
Match_012(sizes, measurement, tapered, compensate) ==
    LET targetWidth == TargetWidth(measurement, tapered, compensate)
        comfortFit == findComfortFit(sizes, targetWidth)
        hasCurvatureData ==
            some_inner_curve(sizes) /\ measurement.nail_bed_curve /= NoCurve
        tightFit == IF hasCurvatureData
                    THEN findTightFit(sizes, targetWidth, measurement.nail_bed_curve)
                    ELSE Null
        perfectFit == IF hasCurvatureData /\ tightFit /= Null /\ tightFit /= Undefined
                      THEN findPerfectFit(sizes, comfortFit, tightFit)
                      ELSE Null
    IN  [width |-> OptionalArray(comfortFit),
         curve |-> OptionalArray(tightFit),
         availableSizes |-> OptionalArray(perfectFit),
         hasTipCurvature |-> some_inner_curve(sizes),
         hasUserCurvature |-> measurement.nail_bed_curve /= NoCurve]

(***************************************************************************)
(* NailFitting.tsx: the body of measurements.forEach for one measurement   *)
(* with width > 0.                                                         *)
(***************************************************************************)
WithScores(size, measurement, targetWidth) ==
    LET widthDiff == Abs(size.width - targetWidth)
        curveDiff == IF measurement.nail_bed_curve /= NoCurve
                     THEN Abs(size.inner_curve - measurement.nail_bed_curve)
                     ELSE 0
        score == widthDiff + (IF measurement.nail_bed_curve /= NoCurve
                              THEN curveDiff ELSE 0)
    IN  [id |-> size.id, size_label |-> size.size_label, width |-> size.width,
         inner_curve |-> size.inner_curve,
         score |-> score, widthDiff |-> widthDiff, curveDiff |-> curveDiff]

Match(sizes, measurement, tapered, compensate) ==
    LET targetWidth == TargetWidth(measurement, tapered, compensate)
        scored == [i \in 1..Len(sizes) |-> WithScores(sizes[i], measurement, targetWidth)]
        byScore == [a \in Elements(scored), b \in Elements(scored) |-> a.score - b.score]
        byWidthDiff == [a \in Elements(scored), b \in Elements(scored) |->
                            a.widthDiff - b.widthDiff]
        byCurveDiff == [a \in Elements(scored), b \in Elements(scored) |->
                            a.curveDiff - b.curveDiff]
        sizesWithScores == ArraySort(scored, byScore)
        perfectFit == First(sizesWithScores)
        sizesByWidth == ArraySort(sizesWithScores, byWidthDiff)
        comfortFit == First(sizesByWidth)
        tightFit == IF measurement.nail_bed_curve /= NoCurve
                    THEN First(ArraySort(sizesWithScores, byCurveDiff))
                    ELSE Undefined
    IN  [width |-> OptionalArray(comfortFit),
         curve |-> OptionalArray(tightFit),
         availableSizes |-> <<perfectFit>>]

(***************************************************************************)
(* part_011: the body of measurements.forEach for one measurement.         *)
(***************************************************************************)
Match_011(sizes, measurement, tapered) ==
    LET targetWidth == TargetWidth(measurement, tapered, TRUE)
        validWidthSizes ==
            ArraySort(filter(sizes, {s \in Elements(sizes) : s.width <= targetWidth}),
                      [a \in Elements(sizes), b \in Elements(sizes) |-> b.width - a.width])
        bestWidth == validWidthSizes[1].width
        widthMatch ==
            IF measurement.nail_bed_width > 0 /\ Len(validWidthSizes) > 0
            THEN filter(validWidthSizes,
                        {s \in Elements(validWidthSizes) : s.width = bestWidth})
            ELSE <<>>
        measurementCurve == measurement.nail_bed_curve
        validCurveSizes ==
            ArraySort(filter(sizes, {s \in Elements(sizes) :
                                        /\ s.inner_curve /= NoCurve
                                        /\ s.inner_curve >= measurementCurve}),
                      [a \in Elements(sizes), b \in Elements(sizes) |->
                          a.inner_curve - b.inner_curve])
        bestCurve == validCurveSizes[1].inner_curve
        curveMatch ==
            IF measurementCurve > 0 /\ Len(validCurveSizes) > 0
            THEN filter(validCurveSizes,
                        {s \in Elements(validCurveSizes) : s.inner_curve = bestCurve})
            ELSE <<>>
    IN  [width |-> widthMatch, curve |-> curveMatch]


(***************************************************************************)
(* What the matchers do to the arrays they hold.  sort reorders the array  *)
(* it is called on, [...array] makes a new one.  The arrays of a function  *)
(* body are held by name in a record; each operator gives the record as    *)
(* the body leaves it, so that sizes is the fetched array afterwards.      *)
(***************************************************************************)
sort(arrays, name, comparator) ==
    [arrays EXCEPT ![name] = ArraySort(@, comparator)]

spread(arrays, name, copy) ==
    [arrays EXCEPT ![copy] = arrays[name]]

\* findComfortFit sorting sizes itself, without the copy
findComfortFit_arrays_inPlace(sizes, targetWidth) ==
    sort([sizes |-> sizes, sorted |-> <<>>], "sizes",
         [a \in Elements(sizes), b \in Elements(sizes) |->
             ComfortCompare(a, b, targetWidth)])

\* part_012: [...sizes].sort(...) of findComfortFit
findComfortFit_arrays(sizes, targetWidth) ==
    sort(spread([sizes |-> sizes, sorted |-> <<>>], "sizes", "sorted"), "sorted",
         [a \in Elements(sizes), b \in Elements(sizes) |->
             ComfortCompare(a, b, targetWidth)])

\* part_012: [...sizes].sort(...) of either branch of findTightFit
findTightFit_arrays(sizes, targetWidth, targetCurve) ==
    sort(spread([sizes |-> sizes, sorted |-> <<>>], "sizes", "sorted"), "sorted",
         IF targetCurve /= NoCurve
         THEN [a \in Elements(sizes), b \in Elements(sizes) |->
                  TightCurveCompare(a, b, targetCurve)]
         ELSE [a \in Elements(sizes), b \in Elements(sizes) |-> b.width - a.width])

\* part_012: the sizes array after the body of measurements.forEach
Match_012_arrays(sizes, measurement, tapered, compensate) ==
    LET targetWidth == TargetWidth(measurement, tapered, compensate)
        afterComfort == findComfortFit_arrays(sizes, targetWidth).sizes
        hasCurvatureData ==
            some_inner_curve(afterComfort) /\ measurement.nail_bed_curve /= NoCurve
    IN  IF hasCurvatureData
        THEN findTightFit_arrays(afterComfort, targetWidth,
                                 measurement.nail_bed_curve).sizes
        ELSE afterComfort

\* the body ranking sizes by width in place: sizes.sort(...) on the fetched array
Match_arrays_inPlace(sizes, measurement, tapered, compensate) ==
    LET targetWidth == TargetWidth(measurement, tapered, compensate)
    IN  sort([sizes |-> sizes, sizesWithScores |-> <<>>,
              sizesByWidth |-> <<>>, sizesByCurve |-> <<>>], "sizes",
             [a \in Elements(sizes), b \in Elements(sizes) |->
                 Abs(a.width - targetWidth) - Abs(b.width - targetWidth)])

\* NailFitting.tsx: the arrays after the body of measurements.forEach
Match_arrays(sizes, measurement, tapered, compensate) ==
    LET targetWidth == TargetWidth(measurement, tapered, compensate)
        scored == [i \in 1..Len(sizes) |-> WithScores(sizes[i], measurement, targetWidth)]
        byScore == [a \in Elements(scored), b \in Elements(scored) |-> a.score - b.score]
        byWidthDiff == [a \in Elements(scored), b \in Elements(scored) |->
                            a.widthDiff - b.widthDiff]
        byCurveDiff == [a \in Elements(scored), b \in Elements(scored) |->
                            a.curveDiff - b.curveDiff]
        mapped == [sizes |-> sizes, sizesWithScores |-> scored,
                   sizesByWidth |-> <<>>, sizesByCurve |-> <<>>]
        scoreSorted == sort(mapped, "sizesWithScores", byScore)
        widthSorted == sort(spread(scoreSorted, "sizesWithScores", "sizesByWidth"),
                            "sizesByWidth", byWidthDiff)
    IN  IF measurement.nail_bed_curve /= NoCurve
        THEN sort(spread(widthSorted, "sizesWithScores", "sizesByCurve"),
                  "sizesByCurve", byCurveDiff)
        ELSE widthSorted

\* part_011: the arrays after the body of measurements.forEach; filter makes
\* the arrays that are sorted
Match_011_arrays(sizes, measurement, tapered) ==
    LET targetWidth == TargetWidth(measurement, tapered, TRUE)
        filtered ==
            [sizes |-> sizes,
             validWidthSizes |->
                 IF measurement.nail_bed_width > 0
                 THEN filter(sizes, {s \in Elements(sizes) : s.width <= targetWidth})
                 ELSE <<>>,
             validCurveSizes |->
                 IF measurement.nail_bed_curve > 0
                 THEN filter(sizes, {s \in Elements(sizes) :
                                        /\ s.inner_curve /= NoCurve
                                        /\ s.inner_curve >= measurement.nail_bed_curve})
                 ELSE <<>>]
    IN  sort(sort(filtered, "validWidthSizes",
                  [a \in Elements(sizes), b \in Elements(sizes) |-> b.width - a.width]),
             "validCurveSizes",
             [a \in Elements(sizes), b \in Elements(sizes) |->
                 a.inner_curve - b.inner_curve])

(***************************************************************************)
(* Display.  React renders after every state change, so what is displayed  *)
(* is a function of the state.                                             *)
(***************************************************************************)
NA == <<"N", "/", "A">>
Hidden == <<>>

\* part_012: getCurvatureMessage, the lines joined by "\n"
getCurvatureMessage(matches) ==
    (IF ~matches.hasTipCurvature
     THEN <<"Following product does not provide inner curvature information">>
     ELSE <<>>)
    \o (IF ~matches.hasUserCurvature
        THEN <<"This user's curvature measurement is missing">>
        ELSE <<>>)

\* part_012: what DisplaySizeMatches renders of one stored match.  The hover
\* text of a box without a fit is the curvature message; that of a shown fit
\* (its width and curve) is left out.
DisplayOf(matches) ==
    LET comfortFit == First(matches.width)
        tightFit == First(matches.curve)
        perfectFit == First(matches.availableSizes)
    IN  [comfort |-> IF comfortFit /= Undefined THEN comfortFit.size_label ELSE Hidden,
         perfect |-> IF perfectFit /= Undefined THEN perfectFit.size_label ELSE NA,
         perfectMessage |-> IF perfectFit /= Undefined THEN <<>>
                            ELSE getCurvatureMessage(matches),
         tight |-> IF tightFit /= Undefined THEN tightFit.size_label ELSE NA,
         tightMessage |-> IF tightFit /= Undefined THEN <<>>
                          ELSE getCurvatureMessage(matches)]

\* part_012: DisplaySizeMatches for one measurement; Null when it renders nothing
DisplaySizeMatches(measurement) ==
    IF measurement.finger_position \notin DOMAIN matchedSizes_012 THEN Null
    ELSE DisplayOf(matchedSizes_012[measurement.finger_position])

\* NailFitting.tsx: one cell of a results row, array?.map(size => ... size.id ...):
\* the labels shown, or a TypeError thrown on reading a property of undefined
RenderCell(array) ==
    IF \E i \in 1..Len(array) : array[i] = Undefined
    THEN [throws |-> TRUE, labels |-> <<>>]
    ELSE [throws |-> FALSE, labels |-> [i \in 1..Len(array) |-> array[i].size_label]]

\* NailFitting.tsx: the results table cells of one measurement; Null when the
\* table is not rendered.  The row titled Comfort lists matches.curve and the
\* row titled Tight lists matches.width.
RenderResults(measurement) ==
    IF selectedSet = Null \/ DOMAIN matchedSizes = {} THEN Null
    ELSE IF measurement.finger_position \notin DOMAIN matchedSizes
         THEN [perfect |-> RenderCell(<<>>), comfort |-> RenderCell(<<>>),
               tight |-> RenderCell(<<>>)]
         ELSE LET matches == matchedSizes[measurement.finger_position]
              IN  [perfect |-> RenderCell(matches.availableSizes),
                   comfort |-> RenderCell(matches.curve),
                   tight |-> RenderCell(matches.width)]

RenderThrows ==
    \E i \in 1..Len(measurements) :
        /\ RenderResults(measurements[i]) /= Null
        /\ \/ RenderResults(measurements[i]).perfect.throws
           \/ RenderResults(measurements[i]).comfort.throws
           \/ RenderResults(measurements[i]).tight.throws

(***************************************************************************)
(* The findMatchingSizes handlers.  Each returns at once when no set is    *)
(* selected; fetchData may throw, which the handler catches and logs,      *)
(* leaving matchedSizes as it was; otherwise the matches of every          *)
(* measurement are computed and stored with setMatchedSizes.               *)
(***************************************************************************)
Find(ms, position) ==
    ms[CHOOSE i \in 1..Len(ms) : ms[i].finger_position = position]

PositionsWhere(ms, keep) ==
    {ms[i].finger_position : i \in {k \in 1..Len(ms) : ms[k] \in keep}}

\* NailFitting.tsx: measurements.forEach, filling matches
Matches(ms, sizes, tapered, compensate) ==
    [f \in PositionsWhere(ms, {m \in Elements(ms) : m.nail_bed_width > 0}) |->
        Match(sizes, Find(ms, f), tapered, compensate)]

\* part_012: measurements.forEach, filling matches
Matches_012(ms, sizes, tapered, compensate) ==
    [f \in PositionsWhere(ms, {m \in Elements(ms) : m.nail_bed_width > 0}) |->
        Match_012(sizes, Find(ms, f), tapered, compensate)]

\* part_011: measurements.forEach, filling matches
Matches_011(ms, sizes, tapered) ==
    [f \in PositionsWhere(ms, Elements(ms)) |-> Match_011(sizes, Find(ms, f), tapered)]

\* matches[key] = value
Put(object, key, value) ==
    [k \in DOMAIN object \cup {key} |-> IF k = key THEN value ELSE object[k]]

\* a call reusing the array the previous call fetched, sorted by descending
\* width in place as loadSizes sorts allSizes
FetchedSizes_reused(revision) ==
    IF revision \in DOMAIN sizesArg
    THEN ArraySort(sizesArg[revision],
                   [a \in Elements(sizesTable), b \in Elements(sizesTable) |->
                       b.width - a.width])
    ELSE sizesTable

\* The rows fetchData returns to a call of findMatchingSizes: every call
\* fetches anew, and the rows come in the table's order.
FetchedSizes(revision) == sizesTable

\* the body with the guard written nail_bed_width >= 0, so that an unmeasured
\* finger is matched too
forEachBody_zeroMatched(revision, acc, measurement, tapered, compensate) ==
    CASE revision = "NailFitting.tsx" ->
            IF measurement.nail_bed_width >= 0
            THEN [matches |-> Put(acc.matches, measurement.finger_position,
                                  Match(acc.sizes, measurement, tapered, compensate)),
                  sizes |-> Match_arrays(acc.sizes, measurement, tapered,
                                         compensate).sizes]
            ELSE acc
      [] revision = "part_012" ->
            IF measurement.nail_bed_width >= 0
            THEN [matches |-> Put(acc.matches, measurement.finger_position,
                                  Match_012(acc.sizes, measurement, tapered, compensate)),
                  sizes |-> Match_012_arrays(acc.sizes, measurement, tapered, compensate)]
            ELSE acc
      [] revision = "part_011" ->
            [matches |-> Put(acc.matches, measurement.finger_position,
                             Match_011(acc.sizes, measurement, tapered)),
             sizes |-> Match_011_arrays(acc.sizes, measurement, tapered).sizes]

\* The body of measurements.forEach of a revision, on the matches object and
\* the sizes array the handler holds
forEachBody(revision, acc, measurement, tapered, compensate) ==
    CASE revision = "NailFitting.tsx" ->
            IF measurement.nail_bed_width > 0
            THEN [matches |-> Put(acc.matches, measurement.finger_position,
                                  Match(acc.sizes, measurement, tapered, compensate)),
                  sizes |-> Match_arrays(acc.sizes, measurement, tapered,
                                         compensate).sizes]
            ELSE acc
      [] revision = "part_012" ->
            IF measurement.nail_bed_width > 0
            THEN [matches |-> Put(acc.matches, measurement.finger_position,
                                  Match_012(acc.sizes, measurement, tapered, compensate)),
                  sizes |-> Match_012_arrays(acc.sizes, measurement, tapered, compensate)]
            ELSE acc
      [] revision = "part_011" ->
            [matches |-> Put(acc.matches, measurement.finger_position,
                             Match_011(acc.sizes, measurement, tapered)),
             sizes |-> Match_011_arrays(acc.sizes, measurement, tapered).sizes]

RECURSIVE forEach(_, _, _, _, _, _)
forEach(revision, ms, i, acc, tapered, compensate) ==
    IF i > Len(ms) THEN acc
    ELSE forEach(revision, ms, i + 1,
                 forEachBody(revision, acc, ms[i], tapered, compensate),
                 tapered, compensate)

\* What a call of a revision's findMatchingSizes computes from the state it reads
Computed(revision) ==
    forEach(revision, measurements, 1,
            [matches |-> NoMatches, sizes |-> FetchedSizes(revision)],
            isTaperedShape(selectedSet), useTaperedCompensation)

MaxCalls == 2

\* outputs with the matches of one more completed call, while they are kept
Recorded(revision, matches) ==
    IF recording /\ Len(outputs[revision]) < MaxCalls
    THEN [outputs EXCEPT ![revision] = Append(@, matches)]
    ELSE outputs

findMatchingSizes ==
    IF selectedSet = Null THEN UNCHANGED vars
    ELSE \/ UNCHANGED vars
         \/ \E done \in {Computed("NailFitting.tsx")} :
               /\ matchedSizes' = done.matches
               /\ sizesArg' = Put(sizesArg, "NailFitting.tsx", done.sizes)
               /\ outputs' = Recorded("NailFitting.tsx", done.matches)
               /\ completed' = completed \cup {"NailFitting.tsx"}
               /\ UNCHANGED <<sizesTable, selectedSet, measurements,
                              useTaperedCompensation, helperVars, recording, uiVars,
                              matchedSizes_012, matchedSizes_011, storeVars>>

findMatchingSizes_012 ==
    IF selectedSet = Null THEN UNCHANGED vars
    ELSE \/ UNCHANGED vars
         \/ \E done \in {Computed("part_012")} :
               /\ matchedSizes_012' = done.matches
               /\ sizesArg' = Put(sizesArg, "part_012", done.sizes)
               /\ outputs' = Recorded("part_012", done.matches)
               /\ completed' = completed \cup {"part_012"}
               /\ UNCHANGED <<sizesTable, selectedSet, measurements,
                              useTaperedCompensation, helperVars, recording, uiVars,
                              matchedSizes, matchedSizes_011, storeVars>>

findMatchingSizes_011 ==
    IF selectedSet = Null THEN UNCHANGED vars
    ELSE \/ UNCHANGED vars
         \/ \E done \in {Computed("part_011")} :
               /\ matchedSizes_011' = done.matches
               /\ sizesArg' = Put(sizesArg, "part_011", done.sizes)
               /\ outputs' = Recorded("part_011", done.matches)
               /\ completed' = completed \cup {"part_011"}
               /\ UNCHANGED <<sizesTable, selectedSet, measurements,
                              useTaperedCompensation, helperVars, recording, uiVars,
                              matchedSizes, matchedSizes_012, storeVars>>

\* shown while no invocation has stored its matches
NotShown == [seq |-> 0, latest |-> 0, latestMatches |-> NoMatches]

InitHelpers ==
    /\ tightFallback = [called |-> FALSE]
    /\ perfectCall = [called |-> FALSE]

InitLog(record) ==
    /\ recording = record
    /\ outputs = [revision \in Revisions |-> <<>>]
    /\ sizesArg = [revision \in {} |-> <<>>]

InitUI ==
    /\ loading = FALSE
    /\ pending = {}
    /\ started = 0
    /\ shown = NotShown
    /\ clientLoads = 0

(***************************************************************************)
(* The stored data (the Clients, Measurements and User Credits tables) and *)
(* the browser sessions working on it.  Each session holds the state of    *)
(* one NailFitting component; a handler runs from one await to the next in *)
(* one step, pc naming the await it has reached.                           *)
(***************************************************************************)
Sessions == {"a", "b"}

\* selectedClientId when no client is selected (null; !selectedClientId also
\* holds of 0)
NoClient == 0

\* The fingers of the form, ten in the source
FormFingers == 2
MaxClicks == 2
MaxCredits == 1

FormPositions == {FingerNames[i] : i \in 1..FormFingers}

DefaultForm ==
    [i \in 1..FormFingers |-> FingerMeasurement(FingerNames[i], 0, NoCurve)]

\* A row of the Measurements table; nail_bed_curve null is held as NoCurve
MeasurementRow(id, client_id, measurement, date_measured) ==
    [id |-> id, client_id |-> client_id,
     finger_position |-> measurement.finger_position,
     nail_bed_width |-> measurement.nail_bed_width,
     nail_bed_curve |-> measurement.nail_bed_curve,
     date_measured |-> date_measured]

\* A session's component after mount, with the given form contents
MountedSession(form, named) ==
    [pc |-> "idle",
     saveStatus |-> "idle",
     timers |-> 0,
     named |-> named,
     loading |-> FALSE,
     isUpdating |-> FALSE,
     selectedClientId |-> NoClient,
     measurements |-> form,
     originalMeasurements |-> DefaultForm,
     clicks |-> 0,
     closure |-> form,
     userCredits |-> Null,
     newClient |-> NoClient,
     todo |-> <<>>,
     existing |-> 0]

\* The credits read of a handler that has not read them
Unread == [unread |-> TRUE]

\* initial: the User Credits row at the start; saved: handlers that reached
\* setSaveStatus("saved") after writing; deleted: rows the cleanup deleted;
\* and of the last handler of each session: which it was, the store when it
\* started, the credits row it read, how it ended; loaded: the client whose
\* measurements handleClientSelect fetched last, until the form is touched
NoHistory ==
    [initial |-> Null, saved |-> 0, deleted |-> {},
     handler |-> [s \in Sessions |-> "none"],
     before |-> [s \in Sessions |-> Null],
     read |-> [s \in Sessions |-> Unread],
     outcome |-> [s \in Sessions |-> "none"],
     loaded |-> [s \in Sessions |-> NoClient]]

IdleCleanup == [pc |-> "idle", validClientIds |-> {}]

\* The duplicate-cleanup migration before it has run
NoMigration == [applied |-> FALSE, before |-> {}]

\* RelativeMeasuring after mount: no image, reference mode, nothing marked.
\* Since the last reset: reported is the last call of onMeasurementComplete
\* with what calculateMeasurement used, clicked the points of the clicks
\* that handleCanvasClick has taken; wasReset: there has been a reset
MountedMeasuring ==
    [image |-> FALSE,
     imageRef |-> FALSE,
     referenceMeasurement |-> Null,
     nailMeasurement |-> Null,
     referenceSize |-> 0,
     isSettingReference |-> TRUE,
     startPoint |-> Null,
     isPanning |-> FALSE,
     reported |-> Null,
     clicked |-> <<>>,
     wasReset |-> FALSE]

\* The store untouched and every session just mounted
InitStore ==
    /\ Clients = {}
    /\ Measurements = {}
    /\ UserCredits = Null
    /\ identity = [Clients |-> 0, Measurements |-> 0]
    /\ clock = 0
    /\ session = [s \in Sessions |-> MountedSession(DefaultForm, FALSE)]
    /\ cleanup = IdleCleanup
    /\ migration = NoMigration
    /\ measuring = MountedMeasuring
    /\ history = NoHistory

MeasurementInputs ==
    { [i \in 1..NumFingers |-> FingerMeasurement(FingerNames[i], w[i], c[i])] :
        w \in {x \in [1..NumFingers -> WidthValues] :
                   \A i \in 2..NumFingers : x[i] \in FurtherWidthValues},
        c \in [1..NumFingers -> CurveValues] }

Init ==
    /\ sizesTable \in {l \in SizeLists(MaxSizes) : DistinctRows(l)}
    /\ selectedSet \in NailSets \cup {Null}
    /\ measurements \in MeasurementInputs
    /\ useTaperedCompensation \in BOOLEAN
    /\ matchedSizes = NoMatches
    /\ matchedSizes_012 = NoMatches
    /\ matchedSizes_011 = NoMatches
    /\ completed = {}
    /\ InitHelpers
    /\ InitLog(FALSE)
    /\ InitUI
    /\ InitStore

Next ==
    \/ findMatchingSizes
    \/ findMatchingSizes_012
    \/ findMatchingSizes_011

Spec == Init /\ [][Next]_vars

(***************************************************************************)
(* Repeated calls.  The Find Matches button can be pressed again with      *)
(* nothing changed; the matches of up to MaxCalls completed calls of each  *)
(* revision are kept in outputs.                                           *)
(***************************************************************************)
FewSizes == 2

InitRepeat ==
    /\ sizesTable \in {l \in SizeLists(FewSizes) : DistinctRows(l)}
    /\ selectedSet \in NailSets
    /\ measurements \in MeasurementInputs
    /\ useTaperedCompensation \in BOOLEAN
    /\ matchedSizes = NoMatches
    /\ matchedSizes_012 = NoMatches
    /\ matchedSizes_011 = NoMatches
    /\ completed = {}
    /\ InitHelpers
    /\ InitLog(TRUE)
    /\ InitUI
    /\ InitStore

NextRepeat == findMatchingSizes \/ findMatchingSizes_012

SpecRepeat == InitRepeat /\ [][NextRepeat]_vars

(***************************************************************************)
(* Batches.  One call matches every finger of the measurements array; here *)
(* the array holds BatchFingers fingers.                                   *)
(***************************************************************************)
BatchFingers == 2

BatchInputs ==
    { [i \in 1..BatchFingers |-> FingerMeasurement(FingerNames[i], w[i], c[i])] :
        w \in {x \in [1..BatchFingers -> WidthValues] :
                   \A i \in 2..BatchFingers : x[i] \in FurtherWidthValues},
        c \in [1..BatchFingers -> CurveValues] }

InitBatch ==
    /\ sizesTable \in {l \in SizeLists(FewSizes) : DistinctRows(l)}
    /\ selectedSet \in NailSets
    /\ measurements \in BatchInputs
    /\ useTaperedCompensation \in BOOLEAN
    /\ matchedSizes = NoMatches
    /\ matchedSizes_012 = NoMatches
    /\ matchedSizes_011 = NoMatches
    /\ completed = {}
    /\ InitHelpers
    /\ InitLog(FALSE)
    /\ InitUI
    /\ InitStore

NextBatch == findMatchingSizes \/ findMatchingSizes_012

SpecBatch == InitBatch /\ [][NextBatch]_vars

(***************************************************************************)
(* The component in use (NailFitting.tsx).  The user picks a set, types    *)
(* into the measurement inputs, presses Find Matches and selects a client; *)
(* findMatchingSizes and handleClientSelect await fetchData, so each is a  *)
(* start step and a later step in which the fetch resolves or rejects.  An *)
(* invocation of findMatchingSizes works on the selectedSet, measurements  *)
(* and useTaperedCompensation of the render in which it was started.       *)
(***************************************************************************)
MaxStarted == 2
MaxClientLoads == 1

Catalogue ==
    << NailTipSize(1, <<"S">>, Mm(10), NoCurve),
       NailTipSize(2, <<"M">>, Mm(12), NoCurve),
       NailTipSize(3, <<"L">>, Mm(14), NoCurve) >>

\* Texts typed into a measurement input
EnteredTexts == { <<"1", "2">>, <<>> }
MeasurementFields == {"nail_bed_width", "nail_bed_curve"}

\* parseFloat(value) || 0, in sixteenths of a millimetre
ParsedOrZero(value) ==
    LET parsed == parseFloat(value)
    IN  IF parsed = NaN THEN 0 ELSE (parsed.num * Mm(1)) \div parsed.den

setSelectedSet(set) ==
    /\ selectedSet' = set
    /\ UNCHANGED <<sizesTable, measurements, useTaperedCompensation,
                   matchedSizes, matchedSizes_012, matchedSizes_011, completed,
                   helperVars, logVars, uiVars, storeVars>>

handleMeasurementChange(index, field, value) ==
    /\ measurements' = [measurements EXCEPT ![index][field] = ParsedOrZero(value)]
    /\ UNCHANGED <<sizesTable, selectedSet, useTaperedCompensation,
                   matchedSizes, matchedSizes_012, matchedSizes_011, completed,
                   helperVars, logVars, uiVars, storeVars>>

\* Find Matches pressed: the button is disabled while no set is selected or
\* loading is set
findMatchingSizes_start ==
    /\ selectedSet /= Null
    /\ ~loading
    /\ started < MaxStarted
    /\ loading' = TRUE
    /\ started' = started + 1
    /\ pending' = pending \cup
                      {[seq |-> started + 1, selectedSet |-> selectedSet,
                        measurements |-> measurements,
                        useTaperedCompensation |-> useTaperedCompensation]}
    /\ UNCHANGED <<sizesTable, selectedSet, measurements, useTaperedCompensation,
                   matchedSizes, matchedSizes_012, matchedSizes_011, completed,
                   helperVars, logVars, shown, clientLoads, storeVars>>

findMatchingSizes_resolved(invocation) ==
    \E done \in {forEach("NailFitting.tsx", invocation.measurements, 1,
                          [matches |-> NoMatches,
                           sizes |-> FetchedSizes("NailFitting.tsx")],
                          isTaperedShape(invocation.selectedSet),
                          invocation.useTaperedCompensation)} :
        /\ matchedSizes' = done.matches
        /\ sizesArg' = Put(sizesArg, "NailFitting.tsx", done.sizes)
        /\ outputs' = Recorded("NailFitting.tsx", done.matches)
        /\ completed' = completed \cup {"NailFitting.tsx"}
        /\ shown' = [seq |-> invocation.seq,
                     latest |-> IF invocation.seq > shown.latest
                                THEN invocation.seq ELSE shown.latest,
                     latestMatches |-> IF invocation.seq > shown.latest
                                       THEN done.matches ELSE shown.latestMatches,
                     selectedSet |-> invocation.selectedSet,
                     measurements |-> invocation.measurements]
        /\ loading' = FALSE
        /\ pending' = pending \ {invocation}
        /\ UNCHANGED <<sizesTable, selectedSet, measurements, useTaperedCompensation,
                       matchedSizes_012, matchedSizes_011, helperVars, recording,
                       started, clientLoads, storeVars>>

findMatchingSizes_rejected(invocation) ==
    /\ loading' = FALSE
    /\ pending' = pending \ {invocation}
    /\ UNCHANGED <<sizesTable, selectedSet, measurements, useTaperedCompensation,
                   matchedSizes, matchedSizes_012, matchedSizes_011, completed,
                   helperVars, logVars, started, shown, clientLoads, storeVars>>

handleClientSelect_start ==
    /\ clientLoads < MaxClientLoads
    /\ loading' = TRUE
    /\ clientLoads' = clientLoads + 1
    /\ UNCHANGED <<sizesTable, selectedSet, measurements, useTaperedCompensation,
                   matchedSizes, matchedSizes_012, matchedSizes_011, completed,
                   helperVars, logVars, pending, started, shown, storeVars>>

\* The measurements a client may have saved, and the set saved with them
SavedMeasurements ==
    { [i \in 1..NumFingers |->
          FingerMeasurement(FingerNames[i], ParsedOrZero(<<"1", "2">>), NoCurve)] }

\* The client's fetches have settled: saved is empty when there is no complete
\* saved set of measurements or a fetch rejected
handleClientSelect_settled(saved, associatedSet) ==
    /\ clientLoads > 0
    /\ clientLoads' = clientLoads - 1
    /\ loading' = FALSE
    /\ IF saved = <<>>
       THEN UNCHANGED <<measurements, selectedSet, storeVars>>
       ELSE /\ measurements' = saved
            /\ selectedSet' = IF associatedSet = Null THEN selectedSet
                               ELSE associatedSet
    /\ UNCHANGED <<sizesTable, useTaperedCompensation,
                   matchedSizes, matchedSizes_012, matchedSizes_011, completed,
                   helperVars, logVars, pending, started, shown, storeVars>>

InitUse ==
    /\ sizesTable = Catalogue
    /\ selectedSet = Null
    /\ measurements = DEFAULT_MEASUREMENTS
    /\ useTaperedCompensation = TRUE
    /\ matchedSizes = NoMatches
    /\ matchedSizes_012 = NoMatches
    /\ matchedSizes_011 = NoMatches
    /\ completed = {}
    /\ InitHelpers
    /\ InitLog(FALSE)
    /\ InitUI
    /\ InitStore

NextUse ==
    \/ \E set \in NailSets : setSelectedSet(set)
    \/ \E value \in EnteredTexts, field \in MeasurementFields :
          handleMeasurementChange(1, field, value)
    \/ findMatchingSizes_start
    \/ \E invocation \in pending : findMatchingSizes_resolved(invocation)
    \/ \E invocation \in pending : findMatchingSizes_rejected(invocation)
    \/ handleClientSelect_start
    \/ \E saved \in SavedMeasurements \cup {<<>>}, set \in NailSets \cup {Null} :
          handleClientSelect_settled(saved, set)

SpecUse == InitUse /\ [][NextUse]_vars

(***************************************************************************)
(* The handlers run for sets of several shapes.  The shape of a set is     *)
(* free text of the Nail Tip Sets table.                                   *)
(***************************************************************************)
ShapedSets ==
    { NailTipSet(1, <<"A","l","m","o","n","d">>),
      NailTipSet(2, <<"S","q","u","a","r","e">>),
      NailTipSet(3, <<"S","t","i","l","e","t","t","o">>),
      NailTipSet(4, <<"S","t","i","l","l","e","t","o">>),
      NailTipSet(5, <<"L","o","n","g"," ","A","L","M","O","N","D">>),
      NailTipSet(6, <<"C","o","f","f","i","n">>) }

InitShape ==
    /\ sizesTable \in {l \in SizeLists(FewSizes) : DistinctRows(l)}
    /\ selectedSet \in ShapedSets
    /\ measurements \in MeasurementInputs
    /\ useTaperedCompensation \in BOOLEAN
    /\ matchedSizes = NoMatches
    /\ matchedSizes_012 = NoMatches
    /\ matchedSizes_011 = NoMatches
    /\ completed = {}
    /\ InitHelpers
    /\ InitLog(FALSE)
    /\ InitUI
    /\ InitStore

NextShape == findMatchingSizes \/ findMatchingSizes_012

SpecShape == InitShape /\ [][NextShape]_vars

\* part_012: the note on tapered shapes is rendered
TaperedShapeNote == selectedSet /= Null /\ isTaperedShape(selectedSet)

(***************************************************************************)
(* Saving and updating a client's measurements (NailFitting.tsx, and       *)
(* part_012's handleUpdateClick, which part_011 shares line for line).     *)
(* The model follows one handler per session at a time and lets the form   *)
(* be edited between handlers.                                             *)
(***************************************************************************)
fittingVars ==
    <<sizesTable, selectedSet, measurements, useTaperedCompensation,
      matchedSizes, matchedSizes_012, matchedSizes_011, completed,
      helperVars, logVars, uiVars, migration, measuring>>

hasAnyMeasurements(form) ==
    \E i \in 1..Len(form) :
        form[i].nail_bed_width > 0 \/ form[i].nail_bed_curve > 0

hasMeasurementsChanged(form, original) ==
    \E i \in 1..Len(form) :
        \/ form[i].nail_bed_width /= original[i].nail_bed_width
        \/ form[i].nail_bed_curve /= original[i].nail_bed_curve

\* The Save / Update button is not disabled
ButtonEnabled(s) ==
    /\ session[s].named
    /\ ~session[s].loading
    /\ session[s].saveStatus /= "saving"
    /\ session[s].isUpdating =>
          hasMeasurementsChanged(session[s].measurements,
                                 session[s].originalMeasurements)
    /\ ~session[s].isUpdating => hasAnyMeasurements(session[s].measurements)

\* The state of the render a handler was started from
Closure(s) ==
    [measurements |-> session[s].measurements,
     originalMeasurements |-> session[s].originalMeasurements,
     selectedClientId |-> session[s].selectedClientId]

Stored ==
    [Clients |-> Clients, Measurements |-> Measurements, UserCredits |-> UserCredits]

\* history when a handler of session s starts
Started(s, handler) ==
    [history EXCEPT !.handler[s] = handler, !.before[s] = Stored,
                    !.read[s] = Unread, !.outcome[s] = "running",
                    !.loaded[s] = NoClient]

\* The catch block: setSaveStatus("error") and the timer that resets it
Caught(component) ==
    [component EXCEPT !.pc = "idle", !.saveStatus = "error", !.timers = @ + 1]

\* The check !userCredits alone, which the handlers do not stop at
Insufficient_nullOnly(userCredits) == userCredits = Null

\* !userCredits || (!userCredits.is_admin && userCredits.credits <= 0)
Insufficient(userCredits) ==
    \/ userCredits = Null
    \/ ~userCredits.is_admin /\ userCredits.credits <= 0

\* await ensureAuthenticated(), getUser() and the read of User Credits, up to
\* the "Insufficient credits" test; the handler goes on at continue
CheckCredits(s, continue) ==
    \E authenticated \in BOOLEAN, userCredits \in {UserCredits, Null} :
        /\ IF ~authenticated
           THEN /\ session' = [session EXCEPT ![s] = Caught(@)]
                /\ history' = [history EXCEPT !.outcome[s] = "error"]
           ELSE IF Insufficient(userCredits)
           THEN /\ session' = [session EXCEPT ![s] = Caught(@)]
                /\ history' = [history EXCEPT !.outcome[s] = "error",
                                              !.read[s] = userCredits]
           ELSE /\ session' = [session EXCEPT ![s].pc = continue,
                                              ![s].userCredits = userCredits]
                /\ history' = [history EXCEPT !.read[s] = userCredits]
        /\ UNCHANGED <<Clients, Measurements, UserCredits, identity, clock, cleanup>>

\* The rows inserted for the valid measurements of a form
InsertedRows(valid, client_id) ==
    { MeasurementRow(identity.Measurements + i, client_id, valid[i], clock) :
        i \in 1..Len(valid) }

validMeasurements(form) ==
    filter(form, {m \in Elements(form) : m.nail_bed_width > 0})

\* update({ credits: userCredits.credits - 1 }); its result is not looked at
DeductCredit(s) ==
    \E applied \in BOOLEAN :
        UserCredits' = IF applied /\ UserCredits /= Null
                       THEN [UserCredits EXCEPT
                                !.credits = session[s].userCredits.credits - 1]
                       ELSE UserCredits

handleSaveClick(s) ==
    /\ session[s].pc = "idle"
    /\ session[s].clicks < MaxClicks
    /\ ButtonEnabled(s)
    /\ ~session[s].isUpdating
    /\ session' = [session EXCEPT ![s].pc = "save_credits",
                                  ![s].saveStatus = "saving",
                                  ![s].clicks = @ + 1,
                                  ![s].closure = Closure(s)]
    /\ history' = Started(s, "save")
    /\ UNCHANGED <<Clients, Measurements, UserCredits, identity, clock, cleanup>>
    /\ UNCHANGED fittingVars

handleSaveClick_credits(s) ==
    /\ session[s].pc = "save_credits"
    /\ CheckCredits(s, "save_client")
    /\ UNCHANGED fittingVars

\* insert into Clients, then the valid measurements are worked out
handleSaveClick_client(s) ==
    /\ session[s].pc = "save_client"
    /\ \/ /\ session' = [session EXCEPT ![s] = Caught(@)]
          /\ history' = [history EXCEPT !.outcome[s] = "error"]
          /\ UNCHANGED <<Clients, identity>>
       \/ /\ Clients' = Clients \cup {identity.Clients + 1}
          /\ identity' = [identity EXCEPT !.Clients = @ + 1]
          /\ IF validMeasurements(session[s].closure.measurements) = <<>>
             THEN /\ session' = [session EXCEPT ![s] = Caught(@)]
                  /\ history' = [history EXCEPT !.outcome[s] = "error"]
             ELSE /\ session' = [session EXCEPT ![s].pc = "save_measurements",
                                                ![s].newClient = identity.Clients + 1]
                  /\ UNCHANGED history
    /\ UNCHANGED <<Measurements, UserCredits, clock, cleanup>>
    /\ UNCHANGED fittingVars

\* setSaveStatus("saved"), the name cleared, and the timer
SaveDone(component) ==
    [component EXCEPT !.pc = "idle", !.saveStatus = "saved", !.named = FALSE,
                      !.timers = @ + 1]

handleSaveClick_measurements(s) ==
    /\ session[s].pc = "save_measurements"
    /\ \/ /\ session' = [session EXCEPT ![s] = Caught(@)]
          /\ history' = [history EXCEPT !.outcome[s] = "error"]
          /\ UNCHANGED <<Measurements, identity, clock>>
       \/ LET valid == validMeasurements(session[s].closure.measurements)
          IN  /\ Measurements' = Measurements \cup
                                     InsertedRows(valid, session[s].newClient)
              /\ identity' = [identity EXCEPT !.Measurements = @ + Len(valid)]
              /\ clock' = clock + 1
              /\ IF session[s].userCredits.is_admin
                 THEN /\ session' = [session EXCEPT ![s] = SaveDone(@)]
                      /\ history' = [history EXCEPT !.outcome[s] = "saved",
                                                    !.saved = @ + 1]
                 ELSE /\ session' = [session EXCEPT ![s].pc = "save_deduct"]
                      /\ UNCHANGED history
    /\ UNCHANGED <<Clients, UserCredits, cleanup>>
    /\ UNCHANGED fittingVars

handleSaveClick_deduct(s) ==
    /\ session[s].pc = "save_deduct"
    /\ DeductCredit(s)
    /\ session' = [session EXCEPT ![s] = SaveDone(@)]
    /\ history' = [history EXCEPT !.outcome[s] = "saved", !.saved = @ + 1]
    /\ UNCHANGED <<Clients, Measurements, identity, clock, cleanup>>
    /\ UNCHANGED fittingVars

\* A timer set by setTimeout(() => setSaveStatus("idle"), 3000) fires
resetSaveStatus(s) ==
    /\ session[s].timers > 0
    /\ session' = [session EXCEPT ![s].saveStatus = "idle", ![s].timers = @ - 1]
    /\ UNCHANGED <<Clients, Measurements, UserCredits, identity, clock, cleanup,
                   history>>
    /\ UNCHANGED fittingVars

\* The client's name is typed in
setClientInfo(s) ==
    /\ session[s].pc = "idle"
    /\ ~session[s].named
    /\ session' = [session EXCEPT ![s].named = TRUE]
    /\ UNCHANGED <<Clients, Measurements, UserCredits, identity, clock, cleanup,
                   history>>
    /\ UNCHANGED fittingVars

\* handleMeasurementChange of a session's component
handleMeasurementChange_in(s, index, field, value) ==
    /\ session[s].pc = "idle"
    /\ session[s].measurements[index][field] /= ParsedOrZero(value)
    /\ session' = [session EXCEPT
                      ![s].measurements[index][field] = ParsedOrZero(value)]
    /\ history' = [history EXCEPT !.loaded[s] = NoClient]
    /\ UNCHANGED <<Clients, Measurements, UserCredits, identity, clock, cleanup>>
    /\ UNCHANGED fittingVars

\* The measurements of the form that differ from the original ones
changedMeasurements(form, original) ==
    filter(form, {form[i] : i \in {k \in 1..Len(form) :
                      \/ form[k].nail_bed_width /= original[k].nail_bed_width
                      \/ form[k].nail_bed_curve /= original[k].nail_bed_curve}})

\* setSaveStatus("saved") and the timer
UpdateDone(component) ==
    [component EXCEPT !.pc = "idle", !.saveStatus = "saved", !.timers = @ + 1]

handleUpdateClick(s) ==
    /\ session[s].pc = "idle"
    /\ session[s].clicks < MaxClicks
    /\ ButtonEnabled(s)
    /\ session[s].isUpdating
    /\ IF session[s].selectedClientId = NoClient
       THEN /\ session' = [session EXCEPT ![s] = Caught(@), ![s].clicks = @ + 1]
            /\ history' = [Started(s, "update") EXCEPT !.outcome[s] = "error"]
       ELSE /\ session' = [session EXCEPT ![s].pc = "update_credits",
                                          ![s].saveStatus = "saving",
                                          ![s].clicks = @ + 1,
                                          ![s].closure = Closure(s)]
            /\ history' = Started(s, "update")
    /\ UNCHANGED <<Clients, Measurements, UserCredits, identity, clock, cleanup>>
    /\ UNCHANGED fittingVars

handleUpdateClick_credits(s) ==
    /\ session[s].pc = "update_credits"
    /\ CheckCredits(s, "update_changed")
    /\ UNCHANGED fittingVars

\* changedMeasurements worked out; nothing to do when there are none
handleUpdateClick_changed(s) ==
    /\ session[s].pc = "update_changed"
    /\ LET changed == changedMeasurements(session[s].closure.measurements,
                                          session[s].closure.originalMeasurements)
       IN  IF changed = <<>>
           THEN /\ session' = [session EXCEPT ![s] = UpdateDone(@)]
                /\ history' = [history EXCEPT !.outcome[s] = "saved"]
           ELSE /\ session' = [session EXCEPT ![s].pc = "update_find",
                                              ![s].todo = changed]
                /\ UNCHANGED history
    /\ UNCHANGED <<Clients, Measurements, UserCredits, identity, clock, cleanup>>
    /\ UNCHANGED fittingVars

\* The rows of a client for a finger with the latest date_measured
LatestRows(client_id, finger_position) ==
    LET rows == {r \in Measurements : /\ r.client_id = client_id
                                      /\ r.finger_position = finger_position}
    IN  {r \in rows : \A other \in rows : other.date_measured <= r.date_measured}

\* select("id") ... order("date_measured", descending).limit(1)
handleUpdateClick_find(s) ==
    /\ session[s].pc = "update_find"
    /\ LET found == LatestRows(session[s].closure.selectedClientId,
                               session[s].todo[1].finger_position)
       IN  \E existing \in IF found = {} THEN {0} ELSE {r.id : r \in found} :
               session' = [session EXCEPT ![s].pc = "update_write",
                                          ![s].existing = existing]
    /\ UNCHANGED <<Clients, Measurements, UserCredits, identity, clock, cleanup,
                   history>>
    /\ UNCHANGED fittingVars

\* update of the row found, or insert of a new row, for the first changed
\* measurement left
handleUpdateClick_write(s) ==
    /\ session[s].pc = "update_write"
    /\ \/ /\ session' = [session EXCEPT ![s] = Caught(@)]
          /\ history' = [history EXCEPT !.outcome[s] = "error"]
          /\ UNCHANGED <<Measurements, identity, clock>>
       \/ LET measurement == session[s].todo[1]
              client_id == session[s].closure.selectedClientId
              left == Tail(session[s].todo)
          IN  /\ IF session[s].existing /= 0
                 THEN /\ Measurements' =
                            { IF r.id = session[s].existing
                              THEN MeasurementRow(r.id, client_id, measurement, clock)
                              ELSE r : r \in Measurements }
                      /\ UNCHANGED identity
                 ELSE /\ Measurements' = Measurements \cup
                            {MeasurementRow(identity.Measurements + 1, client_id,
                                            measurement, clock)}
                      /\ identity' = [identity EXCEPT !.Measurements = @ + 1]
              /\ clock' = clock + 1
              /\ IF left /= <<>>
                 THEN /\ session' = [session EXCEPT ![s].pc = "update_find",
                                                    ![s].todo = left]
                      /\ UNCHANGED history
                 ELSE IF session[s].userCredits.is_admin
                 THEN /\ session' = [session EXCEPT
                            ![s] = [UpdateDone(@) EXCEPT
                                       !.todo = <<>>,
                                       !.originalMeasurements =
                                           session[s].closure.measurements]]
                      /\ history' = [history EXCEPT !.outcome[s] = "saved",
                                                    !.saved = @ + 1]
                 ELSE /\ session' = [session EXCEPT ![s].pc = "update_deduct",
                                                    ![s].todo = left]
                      /\ UNCHANGED history
    /\ UNCHANGED <<Clients, UserCredits, cleanup>>
    /\ UNCHANGED fittingVars

handleUpdateClick_deduct(s) ==
    /\ session[s].pc = "update_deduct"
    /\ DeductCredit(s)
    /\ session' = [session EXCEPT
                      ![s] = [UpdateDone(@) EXCEPT
                                 !.originalMeasurements =
                                     session[s].closure.measurements]]
    /\ history' = [history EXCEPT !.outcome[s] = "saved", !.saved = @ + 1]
    /\ UNCHANGED <<Clients, Measurements, identity, clock, cleanup>>
    /\ UNCHANGED fittingVars

\* part_012 and part_011: handleUpdateClick deletes the client's rows and
\* inserts the valid measurements of the form
handleUpdateClick_012(s) ==
    /\ session[s].pc = "idle"
    /\ session[s].clicks < MaxClicks
    /\ ButtonEnabled(s)
    /\ session[s].isUpdating
    /\ IF session[s].selectedClientId = NoClient
       THEN /\ session' = [session EXCEPT ![s] = Caught(@), ![s].clicks = @ + 1]
            /\ history' = [Started(s, "update") EXCEPT !.outcome[s] = "error"]
       ELSE /\ session' = [session EXCEPT ![s].pc = "update012_credits",
                                          ![s].saveStatus = "saving",
                                          ![s].clicks = @ + 1,
                                          ![s].closure = Closure(s)]
            /\ history' = Started(s, "update")
    /\ UNCHANGED <<Clients, Measurements, UserCredits, identity, clock, cleanup>>
    /\ UNCHANGED fittingVars

handleUpdateClick_012_credits(s) ==
    /\ session[s].pc = "update012_credits"
    /\ CheckCredits(s, "update012_delete")
    /\ UNCHANGED fittingVars

handleUpdateClick_012_delete(s) ==
    /\ session[s].pc = "update012_delete"
    /\ \/ /\ session' = [session EXCEPT ![s] = Caught(@)]
          /\ history' = [history EXCEPT !.outcome[s] = "error"]
          /\ UNCHANGED Measurements
       \/ /\ Measurements' = {r \in Measurements :
                                 r.client_id /= session[s].closure.selectedClientId}
          /\ IF validMeasurements(session[s].closure.measurements) = <<>>
             THEN /\ session' = [session EXCEPT ![s] = Caught(@)]
                  /\ history' = [history EXCEPT !.outcome[s] = "error"]
             ELSE /\ session' = [session EXCEPT ![s].pc = "update012_insert"]
                  /\ UNCHANGED history
    /\ UNCHANGED <<Clients, UserCredits, identity, clock, cleanup>>
    /\ UNCHANGED fittingVars

handleUpdateClick_012_insert(s) ==
    /\ session[s].pc = "update012_insert"
    /\ \/ /\ session' = [session EXCEPT ![s] = Caught(@)]
          /\ history' = [history EXCEPT !.outcome[s] = "error"]
          /\ UNCHANGED <<Measurements, identity, clock>>
       \/ LET valid == validMeasurements(session[s].closure.measurements)
          IN  /\ Measurements' = Measurements \cup
                     InsertedRows(valid, session[s].closure.selectedClientId)
              /\ identity' = [identity EXCEPT !.Measurements = @ + Len(valid)]
              /\ clock' = clock + 1
              /\ IF session[s].userCredits.is_admin
                 THEN /\ session' = [session EXCEPT ![s] = UpdateDone(@)]
                      /\ history' = [history EXCEPT !.outcome[s] = "saved",
                                                    !.saved = @ + 1]
                 ELSE /\ session' = [session EXCEPT ![s].pc = "update012_deduct"]
                      /\ UNCHANGED history
    /\ UNCHANGED <<Clients, UserCredits, cleanup>>
    /\ UNCHANGED fittingVars

handleUpdateClick_012_deduct(s) ==
    /\ session[s].pc = "update012_deduct"
    /\ DeductCredit(s)
    /\ session' = [session EXCEPT ![s] = UpdateDone(@)]
    /\ history' = [history EXCEPT !.outcome[s] = "saved", !.saved = @ + 1]
    /\ UNCHANGED <<Clients, Measurements, identity, clock, cleanup>>
    /\ UNCHANGED fittingVars

\* A client is picked in the Select Existing Client dialog
handleClientSelect(s, selectedClientId) ==
    /\ session[s].pc = "idle"
    /\ selectedClientId \in Clients
    /\ session' = [session EXCEPT ![s].pc = "select_client",
                                  ![s].loading = TRUE,
                                  ![s].isUpdating = TRUE,
                                  ![s].selectedClientId = selectedClientId]
    /\ history' = [history EXCEPT !.loaded[s] = NoClient]
    /\ UNCHANGED <<Clients, Measurements, UserCredits, identity, clock, cleanup>>
    /\ UNCHANGED fittingVars

\* finally { setLoading(false) }
LoadingDone(component) == [component EXCEPT !.pc = "idle", !.loading = FALSE]

\* The fetch of the client's row
handleClientSelect_client(s) ==
    /\ session[s].pc = "select_client"
    /\ \/ session' = [session EXCEPT ![s] = LoadingDone(@)]
       \/ session' = [session EXCEPT
                         ![s].pc = "select_measurements",
                         ![s].named = IF session[s].selectedClientId \in Clients
                                      THEN TRUE ELSE @]
    /\ UNCHANGED <<Clients, Measurements, UserCredits, identity, clock, cleanup,
                   history>>
    /\ UNCHANGED fittingVars

\* The rows of the first date_measured of the rows fetched in descending
\* order of date_measured
mostRecentSet(savedMeasurements) ==
    {r \in savedMeasurements :
        \A other \in savedMeasurements : other.date_measured <= r.date_measured}

\* DEFAULT_MEASUREMENTS.map: the saved measurement of each finger, or the default
sortedMeasurements(rows) ==
    [i \in 1..FormFingers |->
        IF \E r \in rows : r.finger_position = FingerNames[i]
        THEN LET savedMeasurement ==
                     CHOOSE r \in rows : r.finger_position = FingerNames[i]
             IN  FingerMeasurement(FingerNames[i], savedMeasurement.nail_bed_width,
                                   savedMeasurement.nail_bed_curve)
        ELSE DefaultForm[i]]

\* The fetch of the client's measurements: the most recent set is loaded into
\* the form when it has a row for each finger of the form
handleClientSelect_measurements(s) ==
    /\ session[s].pc = "select_measurements"
    /\ \/ /\ session' = [session EXCEPT ![s] = LoadingDone(@)]
          /\ UNCHANGED history
       \/ LET savedMeasurements ==
                  {r \in Measurements : r.client_id = session[s].selectedClientId}
              recent == mostRecentSet(savedMeasurements)
          IN  /\ IF Cardinality(recent) = FormFingers
                 THEN session' = [session EXCEPT
                         ![s] = [LoadingDone(@) EXCEPT
                                    !.measurements = sortedMeasurements(recent),
                                    !.originalMeasurements = sortedMeasurements(recent)]]
                 ELSE session' = [session EXCEPT ![s] = LoadingDone(@)]
              /\ history' = [history EXCEPT
                                !.loaded[s] = session[s].selectedClientId]
    /\ UNCHANGED <<Clients, Measurements, UserCredits, identity, clock, cleanup>>
    /\ UNCHANGED fittingVars

(***************************************************************************)
(* cleanupOrphanedMeasurements, run once when the component mounts: the    *)
(* client ids are read, then the measurements of every other client id are *)
(* deleted.                                                                *)
(***************************************************************************)
cleanupOrphanedMeasurements_clients ==
    /\ cleanup.pc = "clients"
    /\ \/ cleanup' = [cleanup EXCEPT !.pc = "done"]
       \/ cleanup' = [pc |-> "delete", validClientIds |-> Clients]
    /\ UNCHANGED <<Clients, Measurements, UserCredits, identity, clock, session,
                   history>>
    /\ UNCHANGED fittingVars

cleanupOrphanedMeasurements_delete ==
    /\ cleanup.pc = "delete"
    /\ cleanup' = [cleanup EXCEPT !.pc = "done"]
    /\ \/ UNCHANGED <<Measurements, history>>
       \/ /\ Measurements' = {r \in Measurements :
                                 r.client_id \in cleanup.validClientIds}
          /\ history' = [history EXCEPT !.deleted =
                            @ \cup {r \in Measurements :
                                       r.client_id \notin cleanup.validClientIds}]
    /\ UNCHANGED <<Clients, UserCredits, identity, clock, session>>
    /\ UNCHANGED fittingVars

(***************************************************************************)
(* One session saving, selecting and updating clients on a store that      *)
(* starts empty, with any User Credits row or none.                        *)
(***************************************************************************)
\* The user's row of User Credits: none, a user with some credits or none
\* left, or an admin
CreditRows ==
    {Null, [credits |-> MaxCredits, is_admin |-> TRUE]}
        \cup {[credits |-> c, is_admin |-> FALSE] : c \in 0..MaxCredits}

\* Texts typed into a measurement input of the form
FormTexts == { <<"1", "2">>, <<>> }

InitFitting ==
    /\ sizesTable = <<>>
    /\ selectedSet = Null
    /\ measurements = DEFAULT_MEASUREMENTS
    /\ useTaperedCompensation = TRUE
    /\ matchedSizes = NoMatches
    /\ matchedSizes_012 = NoMatches
    /\ matchedSizes_011 = NoMatches
    /\ completed = {}
    /\ InitHelpers
    /\ InitLog(FALSE)
    /\ InitUI

InitClient ==
    /\ InitFitting
    /\ Clients = {}
    /\ Measurements = {}
    /\ UserCredits \in CreditRows
    /\ identity = [Clients |-> 0, Measurements |-> 0]
    /\ clock = 0
    /\ session = [s \in Sessions |-> MountedSession(DefaultForm, FALSE)]
    /\ cleanup = IdleCleanup
    /\ migration = NoMigration
    /\ measuring = MountedMeasuring
    /\ history = [NoHistory EXCEPT !.initial = UserCredits]

\* What the user does with the form between handlers
UseForm(s) ==
    \/ setClientInfo(s)
    \/ \E index \in 1..FormFingers, field \in MeasurementFields, value \in FormTexts :
          handleMeasurementChange_in(s, index, field, value)
    \/ \E selectedClientId \in Clients : handleClientSelect(s, selectedClientId)
    \/ handleClientSelect_client(s)
    \/ handleClientSelect_measurements(s)

SaveSteps(s) ==
    \/ handleSaveClick(s)
    \/ handleSaveClick_credits(s)
    \/ handleSaveClick_client(s)
    \/ handleSaveClick_measurements(s)
    \/ handleSaveClick_deduct(s)

UpdateSteps(s) ==
    \/ handleUpdateClick(s)
    \/ handleUpdateClick_credits(s)
    \/ handleUpdateClick_changed(s)
    \/ handleUpdateClick_find(s)
    \/ handleUpdateClick_write(s)
    \/ handleUpdateClick_deduct(s)

UpdateSteps_012(s) ==
    \/ handleUpdateClick_012(s)
    \/ handleUpdateClick_012_credits(s)
    \/ handleUpdateClick_012_delete(s)
    \/ handleUpdateClick_012_insert(s)
    \/ handleUpdateClick_012_deduct(s)

NextClient == UseForm("a") \/ SaveSteps("a") \/ UpdateSteps("a")

SpecClient == InitClient /\ [][NextClient]_vars

NextClient_012 == UseForm("a") \/ SaveSteps("a") \/ UpdateSteps_012("a")

SpecClient_012 == InitClient /\ [][NextClient_012]_vars

(***************************************************************************)
(* The component mounts, which starts cleanupOrphanedMeasurements, and the *)
(* session saves a new client while the cleanup is under way.  The store   *)
(* starts with a measurement of a client that does not exist and, unless   *)
(* the Clients table is empty, a client with a measurement.                *)
(***************************************************************************)
\* The client_id of a measurement whose client does not exist
OrphanClient == 9

\* Forms with something entered
EnteredForms ==
    { [i \in 1..FormFingers |->
          FingerMeasurement(FingerNames[i], w[i], IF i = 1 THEN c ELSE NoCurve)] :
        w \in [1..FormFingers -> {0, Mm(12)}], c \in CurveValues }

InitCleanup ==
    /\ InitFitting
    /\ Clients \in {{}, {1}}
    /\ Measurements =
          {MeasurementRow(1, OrphanClient, FingerMeasurement(FingerNames[1], Mm(11), NoCurve), 0)}
              \cup {MeasurementRow(1 + c, c, FingerMeasurement(FingerNames[1], Mm(11), NoCurve), 0) :
                       c \in Clients}
    /\ UserCredits \in CreditRows
    /\ identity = [Clients |-> Cardinality(Clients), Measurements |-> 2]
    /\ clock = 1
    /\ \E form \in EnteredForms :
          session = [s \in Sessions |-> MountedSession(form, TRUE)]
    /\ cleanup = [pc |-> "clients", validClientIds |-> {}]
    /\ migration = NoMigration
    /\ measuring = MountedMeasuring
    /\ history = [NoHistory EXCEPT !.initial = UserCredits]

NextCleanup ==
    \/ cleanupOrphanedMeasurements_clients
    \/ cleanupOrphanedMeasurements_delete
    \/ SaveSteps("a")

SpecCleanup == InitCleanup /\ [][NextCleanup]_vars

(***************************************************************************)
(* The duplicate-cleanup migration, run once on a Measurements table with  *)
(* any rows.  ROW_NUMBER() numbers the rows of each (client_id,            *)
(* finger_position) partition from 1 in descending date_measured; rows of  *)
(* equal date_measured are numbered in an order the database chooses.      *)
(***************************************************************************)
MaxRows == 3
MaxDate == 1

\* A table the migration is run on: row i has id i and the client_id,
\* finger_position and date_measured of col[i]
MigratedTable(col) ==
    {MeasurementRow(i, col[i][1], FingerMeasurement(col[i][2], Mm(11), NoCurve),
                    col[i][3]) : i \in DOMAIN col}

\* The rows of r's partition
Partition(rows, r) ==
    {q \in rows : q.client_id = r.client_id
                  /\ q.finger_position = r.finger_position}

\* The numberings of ORDER BY date_measured ASC, which the migration does not use
RankedMeasurements_ascending(rows) ==
    { rn \in [rows -> 1..(Cardinality(rows) + 1)] :
        \A r \in rows :
            /\ rn[r] \in 1..Cardinality(Partition(rows, r))
            /\ \A q \in Partition(rows, r) :
                  /\ (q /= r => rn[q] /= rn[r])
                  /\ (q.date_measured < r.date_measured => rn[q] < rn[r]) }

\* The numberings ROW_NUMBER() OVER (PARTITION BY client_id, finger_position
\* ORDER BY date_measured DESC) can give
RankedMeasurements(rows) ==
    { rn \in [rows -> 1..(Cardinality(rows) + 1)] :
        \A r \in rows :
            /\ rn[r] \in 1..Cardinality(Partition(rows, r))
            /\ \A q \in Partition(rows, r) :
                  /\ (q /= r => rn[q] /= rn[r])
                  /\ (q.date_measured > r.date_measured => rn[q] < rn[r]) }

\* DELETE FROM "Measurements" WHERE id IN (SELECT id ... WHERE rn > 1)
DuplicatesDeleted(rows, rn) == {r \in rows : ~(rn[r] > 1)}

DuplicateCleanup ==
    /\ ~migration.applied
    /\ \E rn \in RankedMeasurements(Measurements) :
          Measurements' = DuplicatesDeleted(Measurements, rn)
    /\ migration' = [applied |-> TRUE, before |-> Measurements]
    /\ UNCHANGED <<Clients, UserCredits, identity, clock, session, cleanup, history>>
    /\ UNCHANGED <<sizesTable, selectedSet, measurements, useTaperedCompensation,
                   matchedSizes, matchedSizes_012, matchedSizes_011, completed,
                   helperVars, logVars, uiVars, measuring>>

InitMigration ==
    /\ InitFitting
    /\ Clients = {1, 2}
    /\ \E n \in 0..MaxRows :
          \E col \in [1..n -> (1..2) \X FormPositions \X (0..MaxDate)] :
              Measurements = MigratedTable(col)
    /\ UserCredits = Null
    /\ identity = [Clients |-> 2, Measurements |-> MaxRows]
    /\ clock = MaxDate + 1
    /\ session = [s \in Sessions |-> MountedSession(DefaultForm, FALSE)]
    /\ cleanup = IdleCleanup
    /\ migration = NoMigration
    /\ measuring = MountedMeasuring
    /\ history = NoHistory

NextMigration == DuplicateCleanup

SpecMigration == InitMigration /\ [][NextMigration]_vars

(***************************************************************************)
(* Two sessions of the same user, each with a name and measurements        *)
(* entered, saving new clients at the same time.                           *)
(***************************************************************************)
InitCredits ==
    /\ InitFitting
    /\ Clients = {}
    /\ Measurements = {}
    /\ UserCredits \in CreditRows
    /\ identity = [Clients |-> 0, Measurements |-> 0]
    /\ clock = 0
    /\ \E form \in EnteredForms :
          session = [s \in Sessions |-> MountedSession(form, TRUE)]
    /\ cleanup = IdleCleanup
    /\ migration = NoMigration
    /\ measuring = MountedMeasuring
    /\ history = [NoHistory EXCEPT !.initial = UserCredits]

NextCredits ==
    \E s \in Sessions :
        \/ SaveSteps(s)
        \/ setClientInfo(s)

SpecCredits == InitCredits /\ [][NextCredits]_vars

(***************************************************************************)
(* One session on a store that holds a client with a full set of           *)
(* measurements: the session saves new clients, selects the stored client, *)
(* changes the first width and updates.                                    *)
(***************************************************************************)
InitExisting ==
    /\ InitFitting
    /\ Clients = {1}
    /\ Measurements =
          {MeasurementRow(i, 1, FingerMeasurement(FingerNames[i], Mm(11), NoCurve), 0) :
              i \in 1..FormFingers}
    /\ UserCredits \in CreditRows
    /\ identity = [Clients |-> 1, Measurements |-> FormFingers]
    /\ clock = 1
    /\ session = [s \in Sessions |-> MountedSession(DefaultForm, FALSE)]
    /\ cleanup = IdleCleanup
    /\ migration = NoMigration
    /\ measuring = MountedMeasuring
    /\ history = [NoHistory EXCEPT !.initial = UserCredits]

NextExisting ==
    \/ SaveSteps("a")
    \/ UpdateSteps("a")
    \/ setClientInfo("a")
    \/ \E value \in FormTexts :
          handleMeasurementChange_in("a", 1, "nail_bed_width", value)
    \/ \E selectedClientId \in Clients : handleClientSelect("a", selectedClientId)
    \/ handleClientSelect_client("a")
    \/ handleClientSelect_measurements("a")

SpecExisting == InitExisting /\ [][NextExisting]_vars

(***************************************************************************)
(* One session saving new clients, with the timers that each end of        *)
(* handleSaveClick sets: a timer fires at any step after it was set, which *)
(* covers a save started and still under way 3 seconds after the one       *)
(* before it ended.                                                        *)
(***************************************************************************)
InitStatus == InitCredits

NextStatus ==
    \/ SaveSteps("a")
    \/ setClientInfo("a")
    \/ resetSaveStatus("a")

SpecStatus == InitStatus /\ [][NextStatus]_vars

\* Every request is answered and every timer fires
FairStatus ==
    /\ WF_vars(handleSaveClick_credits("a"))
    /\ WF_vars(handleSaveClick_client("a"))
    /\ WF_vars(handleSaveClick_measurements("a"))
    /\ WF_vars(handleSaveClick_deduct("a"))
    /\ WF_vars(resetSaveStatus("a"))

SpecStatusFair == SpecStatus /\ FairStatus

(***************************************************************************)
(* RelativeMeasuring (part_010): a reference line and a nail line are      *)
(* marked on an image by clicks on the canvas, and the nail line's length  *)
(* is converted to millimetres by the reference size.  React re-renders    *)
(* after each click, so every handler sees the state the one before left.  *)
(***************************************************************************)
MaxCanvasClicks == 6

\* Points in image space; the distances between them are 0, 3, 4 and 5
CanvasPoints == {[x |-> 0, y |-> 0], [x |-> 3, y |-> 0], [x |-> 3, y |-> 4]}

\* Texts typed into the Reference Size input
ReferenceTexts == { <<"1", "2">>, <<>> }

measuringVars ==
    <<sizesTable, selectedSet, measurements, useTaperedCompensation,
      matchedSizes, matchedSizes_012, matchedSizes_011, completed,
      helperVars, logVars, uiVars, Clients, Measurements, UserCredits, identity,
      clock, session, cleanup, migration, history>>

Measurement(startPoint, endPoint) ==
    [startPoint |-> startPoint, endPoint |-> endPoint]

\* Math.sqrt(Math.pow(endPoint.x - startPoint.x, 2) + Math.pow(endPoint.y - startPoint.y, 2))
PixelLength(measurement) ==
    LET dx == measurement.endPoint.x - measurement.startPoint.x
        dy == measurement.endPoint.y - measurement.startPoint.y
    IN  CHOOSE n \in 0..(dx * dx + dy * dy) : n * n = dx * dx + dy * dy

\* JavaScript's a / b of two numbers held as fractions: a finite quotient,
\* Infinity (num 1, den 0) or NaN
Quotient(a, b) ==
    IF b.num = 0
    THEN IF a.num = 0 THEN NaN ELSE [num |-> 1, den |-> 0]
    ELSE [num |-> a.num * b.den, den |-> a.den * b.num]

\* JavaScript's a * b as a fraction, which calculateMeasurement does not use
Product(a, b) == [num |-> a.num * b.num, den |-> a.den * b.den]

\* if (value): undefined, 0 and NaN are not truthy
IsTruthy(value) ==
    /\ value /= Undefined
    /\ value.num /= 0

\* The last step of calculateMeasurement with the operands exchanged
calculateMeasurement_multiplied(nailPixelLength, pixelsPerMM) ==
    Product(nailPixelLength, pixelsPerMM)

\* return nailPixelLength / pixelsPerMM
MillimetresOf(nailPixelLength, pixelsPerMM) ==
    Quotient(nailPixelLength, pixelsPerMM)

calculateMeasurement(measurement) ==
    IF measuring.referenceMeasurement = Null \/ measuring.referenceSize = 0
    THEN Undefined
    ELSE LET referencePixelLength ==
                 [num |-> PixelLength(measuring.referenceMeasurement), den |-> 1]
             nailPixelLength == [num |-> PixelLength(measurement), den |-> 1]
             pixelsPerMM ==
                 Quotient(referencePixelLength,
                          [num |-> measuring.referenceSize, den |-> 1])
         IN  MillimetresOf(nailPixelLength, pixelsPerMM)

\* reader.onload of handleImageUpload: the canvas is rendered
handleImageUpload ==
    /\ ~measuring.image
    /\ measuring' = [measuring EXCEPT !.image = TRUE]
    /\ UNCHANGED measuringVars

\* img.onload of handleImageUpload: imageRef.current is set
handleImageUpload_onload ==
    /\ measuring.image
    /\ ~measuring.imageRef
    /\ measuring' = [measuring EXCEPT !.imageRef = TRUE]
    /\ UNCHANGED measuringVars

\* onChange of the Reference Size input
setReferenceSize(value) ==
    /\ measuring.image
    /\ measuring' = [measuring EXCEPT !.referenceSize = ParsedOrZero(value)]
    /\ UNCHANGED measuringVars

\* Middle or right button pressed on the canvas
handleMouseDown ==
    /\ measuring.image
    /\ ~measuring.isPanning
    /\ measuring' = [measuring EXCEPT !.isPanning = TRUE]
    /\ UNCHANGED measuringVars

handleMouseUp ==
    /\ measuring.image
    /\ measuring.isPanning
    /\ measuring' = [measuring EXCEPT !.isPanning = FALSE]
    /\ UNCHANGED measuringVars

handleCanvasClick(point) ==
    /\ measuring.image
    /\ Len(measuring.clicked) < MaxCanvasClicks
    /\ IF measuring.isPanning \/ ~measuring.imageRef
       THEN UNCHANGED measuring
       ELSE IF measuring.isSettingReference
       THEN IF measuring.startPoint = Null
            THEN measuring' = [measuring EXCEPT
                                  !.startPoint = point,
                                  !.clicked = Append(@, point)]
            ELSE measuring' = [measuring EXCEPT
                                  !.referenceMeasurement =
                                      Measurement(measuring.startPoint, point),
                                  !.startPoint = Null,
                                  !.isSettingReference = FALSE,
                                  !.clicked = Append(@, point)]
       ELSE IF measuring.startPoint = Null
            THEN measuring' = [measuring EXCEPT
                                  !.startPoint = point,
                                  !.clicked = Append(@, point)]
            ELSE LET measurement == Measurement(measuring.startPoint, point)
                     calculatedValue == calculateMeasurement(measurement)
                 IN  measuring' = [measuring EXCEPT
                         !.nailMeasurement =
                             [startPoint |-> measurement.startPoint,
                              endPoint |-> measurement.endPoint,
                              value |-> calculatedValue],
                         !.startPoint = Null,
                         !.reported =
                             IF IsTruthy(calculatedValue)
                             THEN [value |-> calculatedValue,
                                   measurement |-> measurement,
                                   referenceMeasurement |->
                                       measuring.referenceMeasurement,
                                   referenceSize |-> measuring.referenceSize]
                             ELSE @,
                         !.clicked = Append(@, point)]
    /\ UNCHANGED measuringVars

\* The Reset Measurements button
ResetMeasurements(component) ==
    [component EXCEPT !.referenceMeasurement = Null,
                      !.nailMeasurement = Null,
                      !.startPoint = Null,
                      !.isSettingReference = TRUE,
                      !.reported = Null,
                      !.clicked = <<>>,
                      !.wasReset = TRUE]

resetMeasurements ==
    /\ measuring.image
    /\ measuring' = ResetMeasurements(measuring)
    /\ UNCHANGED measuringVars

\* The Clear Image button
clearImage ==
    /\ measuring.image
    /\ measuring' = [ResetMeasurements(measuring) EXCEPT
                        !.image = FALSE, !.referenceSize = 0]
    /\ UNCHANGED measuringVars

InitMeasure ==
    /\ InitFitting
    /\ InitStore

NextMeasure ==
    \/ handleImageUpload
    \/ handleImageUpload_onload
    \/ \E value \in ReferenceTexts : setReferenceSize(value)
    \/ handleMouseDown
    \/ handleMouseUp
    \/ \E point \in CanvasPoints : handleCanvasClick(point)
    \/ resetMeasurements
    \/ clearImage

SpecMeasure == InitMeasure /\ [][NextMeasure]_vars

(***************************************************************************)
(* part_012's findTightFit is only ever called by findMatchingSizes with a *)
(* curve, so its width-only branch is exercised by calling the helper on   *)
(* its own, as a unit test would: findTightFit(sizes, targetWidth) for the *)
(* target width of a measured finger.                                      *)
(***************************************************************************)
callFindTightFit ==
    \E i \in 1..Len(measurements), tapered \in BOOLEAN :
        LET targetWidth == TargetWidth(measurements[i], tapered, useTaperedCompensation)
        IN  /\ measurements[i].nail_bed_width > 0
            /\ tightFallback' = [called |-> TRUE, targetWidth |-> targetWidth,
                                 result |-> findTightFit(sizesTable, targetWidth, NoCurve)]
            /\ UNCHANGED <<sizesTable, selectedSet, measurements, useTaperedCompensation,
                           matchedSizes, matchedSizes_012, matchedSizes_011, completed,
                           perfectCall, logVars, uiVars, storeVars>>

(***************************************************************************)
(* findPerfectFit called on its own with a comfort and a tight fit taken   *)
(* from the sizes, over catalogues with numbered sizes.                    *)
(***************************************************************************)
callFindPerfectFit ==
    \E comfortFit \in Elements(sizesTable), tightFit \in Elements(sizesTable) :
        /\ perfectCall' = [called |-> TRUE, comfortFit |-> comfortFit,
                           tightFit |-> tightFit,
                           result |-> findPerfectFit(sizesTable, comfortFit, tightFit)]
        /\ UNCHANGED <<sizesTable, selectedSet, measurements, useTaperedCompensation,
                       matchedSizes, matchedSizes_012, matchedSizes_011, completed,
                       tightFallback, logVars, uiVars, storeVars>>

InitPerfect ==
    /\ sizesTable \in LabelLists(MaxLabelled)
    /\ selectedSet = Null
    /\ measurements = DEFAULT_MEASUREMENTS
    /\ useTaperedCompensation = FALSE
    /\ matchedSizes = NoMatches
    /\ matchedSizes_012 = NoMatches
    /\ matchedSizes_011 = NoMatches
    /\ completed = {}
    /\ InitHelpers
    /\ InitLog(FALSE)
    /\ InitUI
    /\ InitStore

SpecPerfect == InitPerfect /\ [][callFindPerfectFit]_vars

NextHelpers == callFindTightFit \/ findMatchingSizes_011

SpecHelpers == Init /\ [][NextHelpers]_vars


(***************************************************************************)
(* Vocabulary of the properties.                                           *)
(***************************************************************************)
Ran(revision) == revision \in completed
Tapered == selectedSet /= Null /\ isTaperedShape(selectedSet)
Measured(f) == Find(measurements, f)
TargetOf(f) == TargetWidth(Measured(f), Tapered, useTaperedCompensation)
WidthDiff(s, t) == Abs(s.width - t)
CurveDiff(s, f) == Abs(s.inner_curve - Measured(f).nail_bed_curve)
Candidates == Elements(sizesTable)
WithCurve == {s \in Candidates : s.inner_curve /= NoCurve}
NoTipCurvature == WithCurve = {}
Positive == PositionsWhere(measurements, {m \in Elements(measurements) : m.nail_bed_width > 0})
Ids(S) == {s.id : s \in S}
\* the comfort, tight and perfect size of a stored match, Undefined when absent
ComfortOf(match) == First(match.width)
TightOf(match) == First(match.curve)
PerfectOf(match) == First(match.availableSizes)

(***************************************************************************)
(* C1.  For every non-empty candidate list and target width the comfort    *)
(* fit is a candidate at minimal distance |width - targetWidth|, and of    *)
(* two candidates at exactly equal distance the narrower one is returned.  *)
(* Stated of both revisions that compute a comfort fit.                    *)
(***************************************************************************)
ClosestSmallerOnTie(c, t) ==
    /\ c /= Undefined
    /\ c.id \in Ids(Candidates)
    /\ \A s \in Candidates :
          /\ WidthDiff(c, t) <= WidthDiff(s, t)
          /\ WidthDiff(c, t) = WidthDiff(s, t) => c.width <= s.width

C1_ComfortClosestSmallerOnTie ==
    /\ \A f \in DOMAIN matchedSizes_012 :
          sizesTable /= <<>> =>
              ClosestSmallerOnTie(ComfortOf(matchedSizes_012[f]), TargetOf(f))
    /\ \A f \in DOMAIN matchedSizes :
          sizesTable /= <<>> =>
              ClosestSmallerOnTie(ComfortOf(matchedSizes[f]), TargetOf(f))

(***************************************************************************)
(* C2.  Whenever the candidate list holds a size whose width equals the    *)
(* target width, the comfort fit has that width, whatever else the list    *)
(* holds.  Stated of part_012's findComfortFit.                            *)
(***************************************************************************)
HasExactWidth(t) == \E s \in Candidates : s.width = t

C2_ExactWidthIsComfort ==
    \A f \in DOMAIN matchedSizes_012 :
        HasExactWidth(TargetOf(f)) =>
            /\ ComfortOf(matchedSizes_012[f]) /= Undefined
            /\ ComfortOf(matchedSizes_012[f]).width = TargetOf(f)

\* The same of NailFitting.tsx, where it holds.
C2_ExactWidthIsComfort_NailFitting ==
    \A f \in DOMAIN matchedSizes :
        HasExactWidth(TargetOf(f)) =>
            /\ ComfortOf(matchedSizes[f]) /= Undefined
            /\ ComfortOf(matchedSizes[f]).width = TargetOf(f)

(***************************************************************************)
(* C3.  With an empty candidate list, the match of a finger with width > 0 *)
(* has comfort, tight and perfect all absent and an empty list of sizes,   *)
(* and neither computing nor displaying it throws.                         *)
(***************************************************************************)
AllAbsent(match) ==
    match.width = <<>> /\ match.curve = <<>> /\ match.availableSizes = <<>>

C3_EmptyCatalogueAllAbsentNoThrow ==
    sizesTable = <<>> =>
        /\ Ran("part_012") =>
              \A f \in Positive :
                  f \in DOMAIN matchedSizes_012 /\ AllAbsent(matchedSizes_012[f])
        /\ Ran("NailFitting.tsx") =>
              /\ \A f \in Positive :
                    f \in DOMAIN matchedSizes /\ AllAbsent(matchedSizes[f])
              /\ ~RenderThrows

(***************************************************************************)
(* C4.  A match requested for a negative width fails with an InvalidInput  *)
(* error.  What a handler yields for one finger is read off its matches:   *)
(* no forEach body throws, so a finger has a stored result or nothing.     *)
(***************************************************************************)
Outcome(matches, f) == IF f \in DOMAIN matches THEN "result" ELSE "none"
Negative == PositionsWhere(measurements, {m \in Elements(measurements) : m.nail_bed_width < 0})

C4_NegativeWidthIsInvalidInput ==
    \A f \in Negative :
        /\ Ran("part_012") => Outcome(matchedSizes_012, f) = "InvalidInput"
        /\ Ran("NailFitting.tsx") => Outcome(matchedSizes, f) = "InvalidInput"

(***************************************************************************)
(* C5.  Without curvature, over a list sorted by descending width, the     *)
(* tight fallback is the first candidate with width <= targetWidth, and    *)
(* undefined when there is none: never a candidate wider than the target.  *)
(* Stated of part_012's findTightFit called without a curve and of         *)
(* part_011's width match, under SpecHelpers.                              *)
(***************************************************************************)
Descending(l) == \A i \in 1..(Len(l) - 1) : l[i].width >= l[i + 1].width
FirstNotWider(l, t) == First(filter(l, {s \in Elements(l) : s.width <= t}))

LargestNotWider(t) ==
    {s \in Candidates : s.width <= t /\ \A u \in Candidates : u.width <= t => u.width <= s.width}

CurveOnlyOnMeasurement ==
    {f \in Positive : /\ Candidates /= {}
                      /\ NoTipCurvature
                      /\ Measured(f).nail_bed_curve /= NoCurve}

C6_TightByWidthPerfectNA ==
    /\ Ran("part_012") =>
          \A f \in CurveOnlyOnMeasurement :
              /\ f \in DOMAIN matchedSizes_012
              /\ LargestNotWider(TargetOf(f)) /= {} =>
                    /\ TightOf(matchedSizes_012[f]) /= Undefined
                    /\ TightOf(matchedSizes_012[f]).id \in Ids(LargestNotWider(TargetOf(f)))
              /\ PerfectOf(matchedSizes_012[f]) = Undefined
              /\ DisplaySizeMatches(Measured(f)).perfect = NA
    /\ Ran("NailFitting.tsx") =>
          \A f \in CurveOnlyOnMeasurement :
              /\ f \in DOMAIN matchedSizes
              /\ LargestNotWider(TargetOf(f)) /= {} =>
                    /\ TightOf(matchedSizes[f]) /= Undefined
                    /\ TightOf(matchedSizes[f]).id \in Ids(LargestNotWider(TargetOf(f)))
              /\ matchedSizes[f].availableSizes = <<>>
              /\ ~RenderThrows

(***************************************************************************)
(* C7.  If neither the sizes nor the measurement carry curvature data,     *)
(* tight and perfect are both unavailable: neither is set to a candidate.  *)
(***************************************************************************)
NoCurvatureAnywhere ==
    {f \in Positive : /\ Candidates /= {}
                      /\ NoTipCurvature
                      /\ Measured(f).nail_bed_curve = NoCurve}

C7_NoCurvatureBothUnavailable ==
    /\ \A f \in NoCurvatureAnywhere \cap DOMAIN matchedSizes_012 :
          /\ TightOf(matchedSizes_012[f]) = Undefined
          /\ PerfectOf(matchedSizes_012[f]) = Undefined
          /\ DisplaySizeMatches(Measured(f)).tight = NA
          /\ DisplaySizeMatches(Measured(f)).perfect = NA
    /\ \A f \in NoCurvatureAnywhere \cap DOMAIN matchedSizes :
          /\ matchedSizes[f].curve = <<>>
          /\ matchedSizes[f].availableSizes = <<>>

(***************************************************************************)
(* C8.  When the measurement has a curve and the candidates have           *)
(* inner-curve values, the tight fit is a candidate whose                  *)
(* |inner_curve - nail_bed_curve| is minimal over the candidate list.  In  *)
(* part_012 the same holds of a list in which only some candidates have a  *)
(* curve, over those that have one.                                        *)
(***************************************************************************)
ClosestCurve(t, f, among) ==
    /\ t /= Undefined
    /\ t.id \in Ids(among)
    /\ \A s \in among : CurveDiff(t, f) <= CurveDiff(s, f)

Widened(ms) ==
    [i \in 1..Len(ms) |->
        [ms[i] EXCEPT !.nail_bed_width = @ + TaperCompensation]]

C9_TaperEqualsWidenedStraight ==
    (Tapered /\ useTaperedCompensation) =>
        /\ Ran("NailFitting.tsx") =>
              matchedSizes = Matches(Widened(measurements), sizesTable, FALSE,
                                     useTaperedCompensation)
        /\ Ran("part_012") =>
              matchedSizes_012 = Matches_012(Widened(measurements), sizesTable, FALSE,
                                             useTaperedCompensation)

(***************************************************************************)
(* C9 as amended.  The same for every measurement with width > 0 (a width  *)
(* of 0 is skipped under the tapered shape, while 0.5 mm under a straight  *)
(* shape is matched); and with a straight shape or compensation disabled   *)
(* the target width is the measured width.                                 *)
(***************************************************************************)
C9_TaperEqualsWidenedStraightWhenMeasured ==
    /\ (Tapered /\ useTaperedCompensation) =>
          \A f \in Positive :
              /\ Ran("NailFitting.tsx") =>
                    /\ f \in DOMAIN matchedSizes
                    /\ matchedSizes[f] = Match(sizesTable, Find(Widened(measurements), f),
                                               FALSE, useTaperedCompensation)
              /\ Ran("part_012") =>
                    /\ f \in DOMAIN matchedSizes_012
                    /\ matchedSizes_012[f] =
                           Match_012(sizesTable, Find(Widened(measurements), f),
                                     FALSE, useTaperedCompensation)
    /\ (selectedSet /= Null /\ ~(Tapered /\ useTaperedCompensation)) =>
          /\ Ran("NailFitting.tsx") =>
                /\ matchedSizes = Matches(measurements, sizesTable, FALSE, FALSE)
                /\ \A f \in DOMAIN matchedSizes :
                      ComfortOf(matchedSizes[f]) /= Undefined =>
                          ComfortOf(matchedSizes[f]).widthDiff
                              = WidthDiff(ComfortOf(matchedSizes[f]),
                                          Measured(f).nail_bed_width)
          /\ Ran("part_012") =>
                matchedSizes_012 = Matches_012(measurements, sizesTable, FALSE, FALSE)

\* Both revisions have matched a measured finger under a tapered shape with
\* compensation, and the comfort fit is not the one the bare width would get.
C9_Witness ==
    /\ Tapered /\ useTaperedCompensation
    /\ Ran("NailFitting.tsx") /\ Ran("part_012")
    /\ \E f \in Positive :
          /\ ComfortOf(matchedSizes[f]) /= Undefined
          /\ ComfortOf(matchedSizes[f]).id
                 /= ComfortOf(Match(sizesTable, Measured(f), FALSE, FALSE)).id
          /\ ComfortOf(matchedSizes_012[f]).id
                 /= ComfortOf(Match_012(sizesTable, Measured(f), FALSE, FALSE)).id

(***************************************************************************)
(* C10.  When the comfort fit and the tight fit have the same label, the   *)
(* perfect fit is that candidate, whether the label is numeric or not      *)
(* (part_012's findPerfectFit; with a label two rows share, the perfect    *)
(* fit is one of the two).                                                 *)
(***************************************************************************)
SameLabel(match) ==
    /\ ComfortOf(match) /= Undefined
    /\ TightOf(match) /= Undefined
    /\ ComfortOf(match).size_label = TightOf(match).size_label

C10_SameLabelIsPerfect ==
    \A f \in DOMAIN matchedSizes_012 :
        SameLabel(matchedSizes_012[f]) =>
            /\ PerfectOf(matchedSizes_012[f]) /= Undefined
            /\ PerfectOf(matchedSizes_012[f])
                   \in {ComfortOf(matchedSizes_012[f]), TightOf(matchedSizes_012[f])}

\* part_012 has matched, out of several candidates, a comfort and a tight fit
\* with the same non-numeric label, and the perfect fit is that candidate.
C10_Witness ==
    \E f \in DOMAIN matchedSizes_012 :
        /\ Len(sizesTable) >= 2
        /\ SameLabel(matchedSizes_012[f])
        /\ parseFloat(ComfortOf(matchedSizes_012[f]).size_label) = NaN
        /\ PerfectOf(matchedSizes_012[f]) = ComfortOf(matchedSizes_012[f])


(***************************************************************************)
(* C11.  With a comfort and a tight fit whose labels are different         *)
(* numbers: if some candidates have a label strictly between the two, the  *)
(* perfect fit is the middle one of those candidates, by position among    *)
(* them in list order (the upper middle of an even number); if none has,   *)
(* the perfect fit is the one of comfort and tight with the smaller label. *)
(***************************************************************************)
LabelValue(size) == parseFloat(size.size_label)

StrictlyBetween(l, a, b) ==
    SelectSeq(l, LAMBDA s : \/ NumLt(a, LabelValue(s)) /\ NumLt(LabelValue(s), b)
                            \/ NumLt(b, LabelValue(s)) /\ NumLt(LabelValue(s), a))

C13_SizesListUnchanged ==
    \A revision \in DOMAIN sizesArg : sizesArg[revision] = sizesTable

\* NailFitting.tsx and part_012 have matched a finger against a list whose
\* first element is not the comfort fit, so their sorts did reorder, and the
\* list is as it was.
C13_Witness ==
    /\ {"NailFitting.tsx", "part_012"} \subseteq DOMAIN sizesArg
    /\ sizesArg["NailFitting.tsx"] = sizesTable
    /\ sizesArg["part_012"] = sizesTable
    /\ \E f \in DOMAIN matchedSizes \cap DOMAIN matchedSizes_012 :
          /\ ComfortOf(matchedSizes[f]) /= Undefined
          /\ ComfortOf(matchedSizes[f]).id /= sizesTable[1].id
          /\ ComfortOf(matchedSizes_012[f]).id /= sizesTable[1].id


C14_FingersIndependent ==
    /\ Ran("NailFitting.tsx") =>
          /\ DOMAIN matchedSizes = Positive
          /\ \A f \in Positive :
                matchedSizes[f] = Match(sizesTable, Measured(f), Tapered,
                                        useTaperedCompensation)
          /\ matchedSizes =
                 forEach("NailFitting.tsx", Reverse(measurements), 1,
                         [matches |-> NoMatches, sizes |-> sizesTable],
                         Tapered, useTaperedCompensation).matches
    /\ Ran("part_012") =>
          /\ DOMAIN matchedSizes_012 = Positive
          /\ \A f \in Positive :
                matchedSizes_012[f] = Match_012(sizesTable, Measured(f), Tapered,
                                                useTaperedCompensation)
          /\ matchedSizes_012 =
                 forEach("part_012", Reverse(measurements), 1,
                         [matches |-> NoMatches, sizes |-> sizesTable],
                         Tapered, useTaperedCompensation).matches

\* Both revisions have matched two fingers with different measurements
\* against several candidates and found them different comfort fits.
C14_Witness ==
    /\ Ran("NailFitting.tsx") /\ Ran("part_012")
    /\ Len(sizesTable) >= 2
    /\ \E f, g \in Positive :
          /\ f /= g
          /\ ComfortOf(matchedSizes[f]).id /= ComfortOf(matchedSizes[g]).id
          /\ ComfortOf(matchedSizes_012[f]).id /= ComfortOf(matchedSizes_012[g]).id


(***************************************************************************)
(* C15.  A measurement with width 0 is skipped: no comfort, tight or       *)
(* perfect size is computed or stored for that finger, whatever its curve, *)
(* and neither the call nor the display of that finger fails.              *)
(***************************************************************************)
Unmeasured == PositionsWhere(measurements, {m \in Elements(measurements) :
                                               m.nail_bed_width = 0})

C15_ZeroWidthSkipped ==
    \A f \in Unmeasured :
        /\ Ran("NailFitting.tsx") =>
              /\ f \notin DOMAIN matchedSizes
              /\ RenderResults(Measured(f)) /= Null =>
                    /\ RenderResults(Measured(f)).perfect = RenderCell(<<>>)
                    /\ RenderResults(Measured(f)).comfort = RenderCell(<<>>)
                    /\ RenderResults(Measured(f)).tight = RenderCell(<<>>)
        /\ Ran("part_012") =>
              /\ f \notin DOMAIN matchedSizes_012
              /\ DisplaySizeMatches(Measured(f)) = Null

\* Both revisions have matched a batch in which one finger is measured and
\* another has width 0 and a curve.
C15_Witness ==
    /\ Ran("NailFitting.tsx") /\ Ran("part_012")
    /\ sizesTable /= <<>>
    /\ DOMAIN matchedSizes /= {} /\ DOMAIN matchedSizes_012 /= {}
    /\ \E f \in Unmeasured :
          /\ Measured(f).nail_bed_curve /= NoCurve
          /\ f \notin DOMAIN matchedSizes
          /\ f \notin DOMAIN matchedSizes_012


(***************************************************************************)
(* C16.  The matches held for display were computed from the set that is   *)
(* selected now and the measurements that are entered now: a change of the *)
(* selected set or of a measurement discards the matches computed before.  *)
(* Stated of what the results table shows, which is rendered while a set   *)
(* is selected and matchedSizes is not empty.                              *)
(***************************************************************************)
ResultsRendered == selectedSet /= Null /\ DOMAIN matchedSizes /= {}

C16_MatchesOfCurrentInputs ==
    ResultsRendered =>
        /\ shown.selectedSet = selectedSet
        /\ shown.measurements = measurements

(***************************************************************************)
(* C18.  When findMatchingSizes has been invoked more than once, the       *)
(* matches held once every invocation has completed are those of the most  *)
(* recently started invocation that stored any: an earlier invocation      *)
(* completing late does not overwrite a later one's matches.               *)
(***************************************************************************)
C18_LatestInvocationShown ==
    (pending = {} /\ shown.latest > 0) => matchedSizes = shown.latestMatches

(***************************************************************************)
(* C17.  The display renders "no match" (for a measurement with a curve,   *)
(* an empty catalogue, or no fitting size although the sizes carry         *)
(* curvature data) differently from "N/A because curvature data is missing": what is shown *)
(* for tight and perfect in the first situation is never what is shown for *)
(* them in the second.  Stated of part_012's DisplaySizeMatches.           *)
(***************************************************************************)
\* the text and hover text of the tight and perfect boxes
TightAndPerfect(display) ==
    [tight |-> display.tight, tightMessage |-> display.tightMessage,
     perfect |-> display.perfect, perfectMessage |-> display.perfectMessage]

\* What the tight and perfect boxes show when the catalogue has sizes and
\* curvature data is missing on the sizes, on the measurement or on both
MissingCurvatureShown ==
    { TightAndPerfect(DisplayOf(Match_012(<<with[1]>>,
                                          FingerMeasurement(FingerNames[1], Mm(12), with[2]),
                                          FALSE, FALSE))) :
        with \in {x \in SizePool \X CurveValues :
                    x[1].inner_curve = NoCurve \/ x[2] = NoCurve} }

NoMatchFingers ==
    {f \in Positive \cap DOMAIN matchedSizes_012 :
        /\ Measured(f).nail_bed_curve /= NoCurve
        /\ \/ Candidates = {}
           \/ /\ ~NoTipCurvature
              /\ \/ TightOf(matchedSizes_012[f]) = Undefined
                 \/ PerfectOf(matchedSizes_012[f]) = Undefined}

C17_NoMatchDistinctFromMissingCurvature ==
    Ran("part_012") =>
        \A f \in NoMatchFingers :
            TightAndPerfect(DisplaySizeMatches(Measured(f))) \notin MissingCurvatureShown

(***************************************************************************)
(* C19.  A candidate's curveDiff is |inner_curve - nail_bed_curve| only    *)
(* when both the candidate and the measurement have a curve value, and 0   *)
(* otherwise, so that a candidate without curve data has no curve term in  *)
(* its combined score.  Stated of the scored sizes NailFitting.tsx stores. *)
(***************************************************************************)
\* the scored sizes stored for a finger
StoredScores(f) ==
    {r \in Elements(matchedSizes[f].width) \cup Elements(matchedSizes[f].curve)
              \cup Elements(matchedSizes[f].availableSizes) : r /= Undefined}

C19_CurveDiffOnlyWhenBothHaveCurve ==
    Ran("NailFitting.tsx") =>
        \A f \in DOMAIN matchedSizes : \A r \in StoredScores(f) :
            /\ r.curveDiff = IF /\ r.inner_curve /= NoCurve
                                /\ Measured(f).nail_bed_curve /= NoCurve
                             THEN Abs(r.inner_curve - Measured(f).nail_bed_curve)
                             ELSE 0
            /\ r.inner_curve = NoCurve => r.score = r.widthDiff

(***************************************************************************)
(* C20.  A product is classified as tapered exactly when its shape label,  *)
(* compared case-insensitively, contains "almond" or "stiletto"; every     *)
(* other label is classified as straight and gets no width compensation.   *)
(* Observed on the matches stored by NailFitting.tsx and part_012, and on  *)
(* part_012's note on tapered shapes.                                      *)
(***************************************************************************)
ContainsTaperedName(shape) ==
    \/ includes(toLowerCase(shape), <<"a","l","m","o","n","d">>)
    \/ includes(toLowerCase(shape), <<"s","t","i","l","e","t","t","o">>)

C20_TaperedIffAlmondOrStiletto ==
    /\ Ran("NailFitting.tsx") =>
          matchedSizes = Matches(measurements, sizesTable,
                                 ContainsTaperedName(selectedSet.shape),
                                 useTaperedCompensation)
    /\ Ran("part_012") =>
          /\ matchedSizes_012 = Matches_012(measurements, sizesTable,
                                            ContainsTaperedName(selectedSet.shape),
                                            useTaperedCompensation)
          /\ TaperedShapeNote <=> ContainsTaperedName(selectedSet.shape)

C22_OneMostRecentRowPerPair ==
    migration.applied =>
        /\ Measurements \subseteq migration.before
        /\ \A r \in migration.before :
              /\ Cardinality(Partition(Measurements, r)) = 1
              /\ \A kept \in Partition(Measurements, r) :
                    \A q \in Partition(migration.before, r) :
                        kept.date_measured >= q.date_measured

\* The migration has run on a table where a pair had rows of different dates
\* and another pair a single row
C22_Witness ==
    /\ migration.applied
    /\ \E r \in migration.before, q \in migration.before :
          /\ q \in Partition(migration.before, r)
          /\ q.date_measured < r.date_measured
          /\ q \notin Measurements
          /\ r \in Measurements
    /\ \E r \in migration.before : Partition(migration.before, r) = {r}

(***************************************************************************)
(* C23.  Round trip: once the session's last handleSaveClick or            *)
(* handleUpdateClick has succeeded and handleClientSelect has then fetched *)
(* a client's measurements, the form holds the stored width and curve of   *)
(* every finger the client has a row for (the latest row of the finger).   *)
(***************************************************************************)
C23_SelectLoadsStored ==
    \A s \in Sessions :
        (/\ session[s].pc = "idle"
         /\ history.outcome[s] = "saved"
         /\ history.loaded[s] /= NoClient)
        => \A i \in 1..FormFingers :
              \A r \in LatestRows(history.loaded[s], FingerNames[i]) :
                  /\ session[s].measurements[i].nail_bed_width = r.nail_bed_width
                  /\ session[s].measurements[i].nail_bed_curve = r.nail_bed_curve

(***************************************************************************)
(* C24.  When handleSaveClick has ended with saveStatus "error", the       *)
(* stored data is as it was before the click: no Clients row created, no   *)
(* Measurements row inserted, no credit deducted.  This includes the click *)
(* on a form whose widths are all 0 and one of whose curves is above 0.    *)
(***************************************************************************)
C24_FailedSaveStoresNothing ==
    \A s \in Sessions :
        (/\ history.handler[s] = "save"
         /\ session[s].pc = "idle"
         /\ session[s].saveStatus = "error")
        => Stored = history.before[s]

(***************************************************************************)
(* C25.  When handleUpdateClick has ended with saveStatus "error", the     *)
(* stored Measurements rows of the selected client are the same as before  *)
(* the click: none deleted, none of the changed fingers written.           *)
(***************************************************************************)
C25_FailedUpdateStoresNothing ==
    \A s \in Sessions :
        (/\ history.handler[s] = "update"
         /\ session[s].pc = "idle"
         /\ session[s].saveStatus = "error")
        => {r \in Measurements : r.client_id = session[s].selectedClientId}
               = {r \in history.before[s].Measurements :
                     r.client_id = session[s].selectedClientId}

(***************************************************************************)
(* C26.  For a user who is not an admin, in every interleaving of the      *)
(* saves of two sessions, the stored balance is never below 0, the number  *)
(* of successful saves never exceeds the initial balance, and once no save *)
(* is under way the balance is the initial balance less the number of      *)
(* successful saves.  An admin's balance never changes.                    *)
(***************************************************************************)
C26_CreditsAccountForSaves ==
    history.initial /= Null =>
        IF history.initial.is_admin
        THEN UserCredits = history.initial
        ELSE /\ UserCredits.credits >= 0
             /\ history.saved <= history.initial.credits
             /\ (\A s \in Sessions : session[s].pc = "idle")
                    => UserCredits.credits = history.initial.credits - history.saved

(***************************************************************************)
(* C27.  When handleSaveClick or handleUpdateClick has read the user's     *)
(* credits and got no record, or the record of a user who is not an admin  *)
(* with credits <= 0, the handler ends there: no Clients row and no        *)
(* Measurements row is inserted, updated or deleted, no credit is          *)
(* deducted, and saveStatus is "error".                                    *)
(***************************************************************************)
\* The credits record session s's handler read does not allow a save
ReadInsufficient(s) ==
    IF history.read[s] = Unread THEN FALSE
    ELSE IF history.read[s] = Null THEN TRUE
    ELSE ~history.read[s].is_admin /\ history.read[s].credits <= 0

C27_NoCreditsNothingStored ==
    \A s \in Sessions :
        ReadInsufficient(s)
        => /\ history.outcome[s] = "error"
           /\ session[s].saveStatus = "error"
           /\ Stored = history.before[s]

\* handleUpdateClick has been refused for a client stored by an earlier save
\* that used up the last credit
C27_Witness ==
    \E s \in Sessions :
        /\ history.handler[s] = "update"
        /\ ReadInsufficient(s)
        /\ history.read[s] /= Null
        /\ session[s].selectedClientId \in Clients
        /\ Measurements /= {}

(***************************************************************************)
(* C28.  From the start of a save until it completes, saveStatus is        *)
(* "saving", also when a timer set by an earlier save fires in between.    *)
(***************************************************************************)
C28_SavingUntilDone ==
    \A s \in Sessions :
        session[s].pc /= "idle" => session[s].saveStatus = "saving"

\* The second half of the claim: after a save has completed, saveStatus
\* returns to "idle"
C28_EventuallyIdle ==
    \A s \in {"a"} :
        (session[s].pc = "idle" /\ session[s].saveStatus \in {"saved", "error"})
            ~> (session[s].saveStatus = "idle")

(***************************************************************************)
(* C29.  RelativeMeasuring takes clicks in pairs.  With n the number of    *)
(* clicks taken since the start or the last reset: a start point is        *)
(* pending exactly when n is odd; the component is in reference mode until *)
(* the first pair is complete, which sets the reference line, and in nail  *)
(* mode from then on; every later complete pair sets the nail line.        *)
(* onMeasurementComplete is called only with a reference line and a        *)
(* reference size other than 0, and with the value nailPixelLength *       *)
(* referenceSize / referencePixelLength (Infinity when the reference line  *)
(* has no length).  After Reset Measurements the component is in reference *)
(* mode with no reference line, no nail line and no pending start point.   *)
(***************************************************************************)
C29_ClicksInPairs ==
    LET n == Len(measuring.clicked)
        pair(k) == Measurement(measuring.clicked[2 * k - 1], measuring.clicked[2 * k])
        reported == measuring.reported
    IN  /\ measuring.startPoint = (IF n % 2 = 1 THEN measuring.clicked[n] ELSE Null)
        /\ measuring.isSettingReference = (n < 2)
        /\ measuring.referenceMeasurement = (IF n >= 2 THEN pair(1) ELSE Null)
        /\ IF n >= 4
           THEN /\ measuring.nailMeasurement /= Null
                /\ measuring.nailMeasurement.startPoint = pair(n \div 2).startPoint
                /\ measuring.nailMeasurement.endPoint = pair(n \div 2).endPoint
           ELSE measuring.nailMeasurement = Null
        /\ reported /= Null =>
              /\ reported.referenceMeasurement /= Null
              /\ reported.referenceSize /= 0
              /\ LET referencePixelLength == PixelLength(reported.referenceMeasurement)
                     nailPixelLength == PixelLength(reported.measurement)
                 IN  IF referencePixelLength = 0
                     THEN reported.value = [num |-> 1, den |-> 0]
                     ELSE /\ reported.value.den /= 0
                          /\ reported.value.num * referencePixelLength
                                = nailPixelLength * reported.referenceSize
                                      * reported.value.den
        /\ (measuring.wasReset /\ n = 0) =>
              /\ measuring.isSettingReference
              /\ measuring.referenceMeasurement = Null
              /\ measuring.nailMeasurement = Null
              /\ measuring.startPoint = Null

\* After a reset, a reference line of 5 pixels and two nail lines have been
\* marked, and the second nail line was reported in millimetres
C29_Witness ==
    /\ measuring.wasReset
    /\ Len(measuring.clicked) = MaxCanvasClicks
    /\ measuring.startPoint = Null
    /\ measuring.referenceMeasurement /= Null
    /\ measuring.reported /= Null
    /\ measuring.reported.value.den /= 0
    /\ measuring.reported.measurement.startPoint
           = measuring.clicked[MaxCanvasClicks - 1]
    /\ measuring.nailMeasurement.value = measuring.reported.value

====
